---- MODULE Spec2Model ----
(***************************************************************************)
(* Model of typeorm-url-query-builder: QueryBuilder.build,                 *)
(* QueryBuilder.buildAdvanced (builder.ts), WhereBuilder (where-builder.ts) *)
(* and the helpers of utils.ts.                                            *)
(*                                                                         *)
(* A JavaScript string is a sequence of symbols.  A symbol is a TLA+       *)
(* string: one character (digits, "-", " ", ".", ",", ";", ":", "*", "!",  *)
(* "%", "_"), one delimiter or keyword of the options object ("||",        *)
(* "$or", "$eq", ...), or one whole word ("name", "status", "John").       *)
(* String.split, includes, startsWith, trim, parseInt and Number are       *)
(* computed on these sequences as JavaScript computes them on characters.  *)
(***************************************************************************)
EXTENDS Integers, Sequences, FiniteSets, TLC

VARIABLES
  mode,               \* the method called: "build" or "buildAdvanced"
  query,              \* the parameter bag; every parameter is None or Some(string)
  rootAlias,          \* the root alias given to buildAdvanced
  pc,                 \* the position in the method
  calls,              \* the calls received by the query builder so far
  output,             \* the descriptor returned by build
  threw,              \* the method ended with an exception
  joinedRelations,    \* buildAdvanced: Set of joined relation keys
  selectedColumns,    \* buildAdvanced: Set of selected column references
  relationWildcards,  \* buildAdvanced: Set of relations selected with .*
  nestedRelations,    \* buildAdvanced: Map parent -> children, as pairs
  sortFields          \* buildAdvanced: Set of sort fields still to select

vars == <<mode, query, rootAlias, pc, calls, output, threw,
          joinedRelations, selectedColumns, relationWildcards,
          nestedRelations, sortFields>>

-----------------------------------------------------------------------------
(* The options object: the defaults of the QueryBuilder constructor.       *)

LOOKUP_DELIMITER == <<"||">>
RELATION_DELIMITER == <<".">>
CONDITION_DELIMITER == <<";">>
VALUE_DELIMITER == <<",">>
EXACT == <<"$eq">>
NOT == <<"!">>
CONTAINS == <<"$cont">>
IS_NULL == <<"$isnull">>
GT == <<"$gt">>
GTE == <<"$gte">>
LT == <<"$lt">>
LTE == <<"$lte">>
STARTS_WITH == <<"$starts">>
ENDS_WITH == <<"$ends">>
IN_ == <<"$in">>
BETWEEN == <<"$between">>
OR == <<"$or">>
AND == <<"$and">>
NESTED_DELIMITER == <<"#">>
NOT_EQUALS == <<"$ne">>
DEFAULT_LIMIT == <<"2", "5">>

-----------------------------------------------------------------------------
(* Optional values: undefined is <<>>, a defined value v is <<v>>.          *)

None == <<>>
Some(v) == <<v>>
IsDefined(o) == Len(o) > 0
Get(o) == o[1]

(* JavaScript truthiness of an optional string: !!value *)
Truthy(o) == IsDefined(o) /\ Len(Get(o)) > 0

-----------------------------------------------------------------------------
(* String primitives.                                                      *)

StartsAt(s, i, d) ==
  /\ i + Len(d) - 1 <= Len(s)
  /\ \A j \in 1..Len(d) : s[i + j - 1] = d[j]

StartsWith(s, d) == StartsAt(s, 1, d)

Includes(s, d) == \E i \in 1..(Len(s) + 1) : StartsAt(s, i, d)

RECURSIVE SplitAcc(_, _, _, _)
SplitAcc(s, d, i, cur) ==
  IF i > Len(s) THEN <<cur>>
  ELSE IF StartsAt(s, i, d)
       THEN <<cur>> \o SplitAcc(s, d, i + Len(d), <<>>)
       ELSE SplitAcc(s, d, i + 1, Append(cur, s[i]))

(* String.prototype.split with a non-empty separator *)
Split(s, d) == SplitAcc(s, d, 1, <<>>)

RECURSIVE JoinWith(_, _)
JoinWith(parts, d) ==
  IF Len(parts) = 0 THEN <<>>
  ELSE IF Len(parts) = 1 THEN parts[1]
       ELSE parts[1] \o d \o JoinWith(Tail(parts), d)

Slice(s, from) == IF from > Len(s) THEN <<>> ELSE SubSeq(s, from, Len(s))

RECURSIVE TrimLeft(_)
TrimLeft(s) ==
  IF Len(s) > 0 /\ s[1] = " " THEN TrimLeft(Tail(s)) ELSE s

RECURSIVE TrimRight(_)
TrimRight(s) ==
  IF Len(s) > 0 /\ s[Len(s)] = " " THEN TrimRight(SubSeq(s, 1, Len(s) - 1)) ELSE s

Trim(s) == TrimRight(TrimLeft(s))

(* field.replace(/\./g, '_') *)
ReplaceDots(s) == [i \in 1..Len(s) |-> IF s[i] = "." THEN "_" ELSE s[i]]

(* Element i of an array, undefined past its end (array destructuring) *)
At(parts, i) == IF i <= Len(parts) THEN Some(parts[i]) ELSE None

-----------------------------------------------------------------------------
(* JavaScript values held in filter objects and passed as parameters.      *)
(* kind: "undefined", "number", "NaN", "string", "array", "boolean",       *)
(* "null" or "FindOperator"; a FindOperator has a type, one inner value    *)
(* and the _requiresNotEquals mark.  Kind "RangeError" stands for the      *)
(* exception raised while the value was computed.                          *)

JSValue(k, n, s, type, inner, marked) ==
  [kind |-> k, num |-> n, str |-> s, type |-> type, inner |-> inner,
   requiresNotEquals |-> marked]

Undefined == JSValue("undefined", 0, <<>>, "", <<>>, FALSE)
NaN == JSValue("NaN", 0, <<>>, "", <<>>, FALSE)
RangeError == JSValue("RangeError", 0, <<>>, "", <<>>, FALSE)
Num(n) == JSValue("number", n, <<>>, "", <<>>, FALSE)
Str(s) == JSValue("string", 0, s, "", <<>>, FALSE)
Array(items) == JSValue("array", 0, <<>>, "", items, FALSE)
Bool(b) == JSValue("boolean", IF b THEN 1 ELSE 0, <<>>, "", <<>>, FALSE)
Null == JSValue("null", 0, <<>>, "", <<>>, FALSE)
FindOperator(type, v) == JSValue("FindOperator", 0, <<>>, type, <<v>>, FALSE)

(* Object.assign(op, { _requiresNotEquals: true }) *)
Mark(v) == [v EXCEPT !.requiresNotEquals = TRUE]

(* String(value) inside a template literal *)
OptStr(o) == IF IsDefined(o) THEN Str(Get(o)) ELSE Undefined
Template(o) == IF IsDefined(o) THEN Get(o) ELSE <<"undefined">>

-----------------------------------------------------------------------------
(* Numbers.                                                                *)

Digits == <<"0", "1", "2", "3", "4", "5", "6", "7", "8", "9">>
IsDigit(c) == \E i \in 1..10 : Digits[i] = c
DigitVal(c) == (CHOOSE i \in 1..10 : Digits[i] = c) - 1

RECURSIVE DigitPrefixLen(_, _)
DigitPrefixLen(s, i) ==
  IF i <= Len(s) /\ IsDigit(s[i]) THEN 1 + DigitPrefixLen(s, i + 1) ELSE 0

RECURSIVE DigitsValue(_, _)
DigitsValue(s, n) ==
  IF n = 0 THEN 0 ELSE 10 * DigitsValue(s, n - 1) + DigitVal(s[n])

(* parseInt(s, 10): skip leading white space, an optional sign, then the  *)
(* longest digit prefix; NaN when there is no digit.                       *)
ParseInt(str) ==
  LET s == TrimLeft(str)
      signed == Len(s) > 0 /\ s[1] \in {"-", "+"}
      body == IF signed THEN Tail(s) ELSE s
      n == DigitPrefixLen(body, 1)
      v == DigitsValue(body, n)
  IN IF n = 0 THEN NaN
     ELSE IF signed /\ s[1] = "-" THEN Num(0 - v) ELSE Num(v)

(* Number(s) on a string: white space is trimmed, the empty string is 0,  *)
(* an optionally signed digit string is its value, anything else is NaN.   *)
ToNumber(str) ==
  LET s == Trim(str)
      signed == Len(s) > 0 /\ s[1] \in {"-", "+"}
      body == IF signed THEN Tail(s) ELSE s
      n == DigitPrefixLen(body, 1)
      v == DigitsValue(body, n)
  IN IF Len(s) = 0 THEN Num(0)
     ELSE IF n = 0 \/ n # Len(body) THEN NaN
     ELSE IF signed /\ s[1] = "-" THEN Num(0 - v) ELSE Num(v)

(* date-fns isMatch(value, 'yyyy-MM-dd'): a date literal is one whole      *)
(* symbol.                                                                 *)
DateLiterals == {"2024-01-15"}
IsDateLike(s) == Len(s) = 1 /\ s[1] \in DateLiterals

(* date-fns isMatch(value, 'yyyy-MM-dd HH:MM:ss'), reached when the first   *)
(* format does not match.  parse reads the value token by token and gives  *)
(* up at the first token the value does not match; when it comes to a      *)
(* token whose letter an earlier token already used it raises RangeError   *)
(* ("The format string mustn't contain `MM` and `MM` at the same time").   *)
(* A date-time literal matches yyyy-MM-dd HH: and so reaches the second    *)
(* MM; every other input fails at yyyy or at the first "-".                *)
DatetimeLiterals == {"2024-01-15 10:30:00"}
IsMatchDatetimeRaises(s) == Len(s) = 1 /\ s[1] \in DatetimeLiterals

ParseDateOrNumber(o) ==
  IF ~IsDefined(o) THEN Undefined
  ELSE IF IsDateLike(Get(o)) THEN Str(Get(o))
  ELSE IF IsMatchDatetimeRaises(Get(o)) THEN RangeError
  ELSE IF ToNumber(Get(o)).kind # "NaN" THEN ToNumber(Get(o))
  ELSE Str(Get(o))

isValidParam(o) == Truthy(o)

-----------------------------------------------------------------------------
(* JavaScript objects with string keys: a sequence of entries in insertion  *)
(* order; assigning an existing key replaces its value in place.            *)

HasKey(obj, k) == \E i \in 1..Len(obj) : obj[i].key = k

Assign(obj, k, v) ==
  IF HasKey(obj, k)
  THEN [i \in 1..Len(obj) |-> IF obj[i].key = k THEN [key |-> k, val |-> v] ELSE obj[i]]
  ELSE Append(obj, [key |-> k, val |-> v])

-----------------------------------------------------------------------------
(* utils.ts: createWhereObject.  The result is the value stored under      *)
(* field; threw is set where the code calls split on an undefined value.   *)

RECURSIVE MapParse(_)
MapParse(parts) ==
  IF Len(parts) = 0 THEN <<>>
  ELSE <<ParseDateOrNumber(Some(parts[1]))>> \o MapParse(Tail(parts))

FinalValue(operator, value) ==
  IF operator = EXACT THEN ParseDateOrNumber(value)
  ELSE IF operator = CONTAINS
       THEN FindOperator("like", Str(<<"%">> \o Template(value) \o <<"%">>))
  ELSE IF operator = STARTS_WITH
       THEN FindOperator("like", Str(Template(value) \o <<"%">>))
  ELSE IF operator = ENDS_WITH
       THEN FindOperator("like", Str(<<"%">> \o Template(value)))
  ELSE IF operator = IS_NULL THEN Str(<<"IS_NULL">>)
  ELSE IF operator = GT THEN FindOperator("moreThan", ParseDateOrNumber(value))
  ELSE IF operator = GTE THEN FindOperator("moreThanOrEqual", ParseDateOrNumber(value))
  ELSE IF operator = LT THEN FindOperator("lessThan", ParseDateOrNumber(value))
  ELSE IF operator = LTE THEN FindOperator("lessThanOrEqual", ParseDateOrNumber(value))
  ELSE IF operator = IN_
       THEN FindOperator("in", Array(MapParse(Split(Get(value), VALUE_DELIMITER))))
  ELSE IF operator = BETWEEN
       THEN LET parts == Split(Get(value), VALUE_DELIMITER)
            IN FindOperator("between",
                 Array(<<ParseDateOrNumber(At(parts, 1)), ParseDateOrNumber(At(parts, 2))>>))
  ELSE OptStr(value)

createWhereObject(operator, value, notOperator) ==
  IF operator = NOT_EQUALS
  THEN [threw |-> FALSE, val |-> Mark(FindOperator("not", ParseDateOrNumber(value)))]
  ELSE IF operator \in {IN_, BETWEEN} /\ ~IsDefined(value)
  THEN [threw |-> TRUE, val |-> Undefined]
  ELSE IF notOperator /\ operator = EXACT
  THEN [threw |-> FALSE, val |-> Mark(FindOperator("not", ParseDateOrNumber(value)))]
  ELSE IF notOperator
  THEN [threw |-> FALSE, val |-> Mark(FindOperator("not", FinalValue(operator, value)))]
  ELSE [threw |-> FALSE, val |-> FinalValue(operator, value)]

-----------------------------------------------------------------------------
(* where-builder.ts: WhereBuilder.parseFilterString.                       *)

OR_SEPARATOR == LOOKUP_DELIMITER \o OR \o LOOKUP_DELIMITER
AND_SEPARATOR == LOOKUP_DELIMITER \o AND \o LOOKUP_DELIMITER

(* An exception was raised while v was computed *)
RECURSIVE Raised(_)
Raised(v) ==
  \/ v.kind = "RangeError"
  \/ v.kind \in {"FindOperator", "array"} /\ \E i \in 1..Len(v.inner) : Raised(v.inner[i])

(* andGroup[field] = v, unless computing v raised *)
Store(st, field, v) ==
  IF Raised(v) THEN [st EXCEPT !.threw = TRUE]
  ELSE [st EXCEPT !.andGroup = Assign(@, field, v)]

(* The body of the loop over andConditions once field, operator and value  *)
(* are known: st is [threw, andGroup].                                     *)
StoreCondition(st, field, finalOperator, isNot, value, whereObj) ==
  IF isNot /\ finalOperator = EXACT
  THEN Store(st, field, Mark(FindOperator("not", ParseDateOrNumber(value))))
  ELSE IF finalOperator = IS_NULL
  THEN Store(st, field, IF isNot THEN FindOperator("not", Str(<<"IS_NULL">>))
                                 ELSE Str(<<"IS_NULL">>))
  ELSE IF whereObj.threw THEN [st EXCEPT !.threw = TRUE]
  ELSE Store(st, field, whereObj.val)

ParseOperator(st, field, finalOperator, isNot, value) ==
  StoreCondition(st, field, finalOperator, isNot, value,
                 createWhereObject(finalOperator, value, isNot))

ParseParts(st, field, operator, value) ==
  IF Len(field) = 0 \/ Len(operator) = 0 THEN st
  ELSE IF operator = NOT_EQUALS
  THEN Store(st, field, Mark(FindOperator("not", ParseDateOrNumber(value))))
  ELSE IF StartsWith(operator, NOT)
       THEN ParseOperator(st, field, Slice(operator, Len(NOT) + 1), TRUE, value)
       ELSE ParseOperator(st, field, operator, FALSE, value)

SplitCondition(st, parts) ==
  IF Len(parts) < 2 THEN st
  ELSE ParseParts(st, parts[1], parts[2], At(parts, 3))

(* One iteration of the loop over andConditions *)
ParseCondition(st, condition) ==
  IF st.threw THEN st
  ELSE IF Len(Trim(condition)) = 0 THEN st
  ELSE SplitCondition(st, Split(condition, LOOKUP_DELIMITER))

RECURSIVE ParseConditions(_, _)
ParseConditions(st, andConditions) ==
  IF Len(andConditions) = 0 THEN st
  ELSE ParseConditions(ParseCondition(st, andConditions[1]), Tail(andConditions))

(* Every group is pushed, empty or not *)
PushGroup_Always(res, g) ==
  IF g.threw THEN [res EXCEPT !.threw = TRUE]
  ELSE [res EXCEPT !.result = Append(@, g.andGroup)]

(* if (Object.keys(andGroup).length > 0) result.push(andGroup) *)
PushGroup(res, g) ==
  IF g.threw THEN [res EXCEPT !.threw = TRUE]
  ELSE IF Len(g.andGroup) > 0 THEN [res EXCEPT !.result = Append(@, g.andGroup)]
  ELSE res

(* The loop over orGroups: res is [threw, result]. *)
RECURSIVE ParseGroups(_, _)
ParseGroups(res, orGroups) ==
  IF Len(orGroups) = 0 \/ res.threw THEN res
  ELSE ParseGroups(
         PushGroup(res, ParseConditions([threw |-> FALSE, andGroup |-> <<>>],
                                        Split(orGroups[1], AND_SEPARATOR))),
         Tail(orGroups))

parseFilterString(filterString) ==
  IF ~Truthy(filterString) THEN [threw |-> FALSE, result |-> <<>>]
  ELSE ParseGroups([threw |-> FALSE, result |-> <<>>],
                   Split(Get(filterString), OR_SEPARATOR))

-----------------------------------------------------------------------------
(* Calls received by the query builder, in call order.                     *)
(*   select/addSelect: column, alias (None when not given)                 *)
(*   leftJoin/innerJoin: column is the join path, alias the join alias     *)
(*   where/andWhere/orWhere with a clause: column, sql, placeholders,      *)
(*     params; with Brackets: bracket holds the calls made on the          *)
(*     sub-builder handed to the Brackets callback                         *)
(*   orderBy: column, sql is the direction, nulls                          *)
(*   take/skip: arg                                                        *)

Call(op) ==
  [op |-> op, column |-> <<>>, alias |-> None, sql |-> <<>>,
   placeholders |-> <<>>, params |-> <<>>, isBracket |-> FALSE,
   bracket |-> <<>>, nulls |-> None, arg |-> Undefined]

SelectCall(op, column, as) == [Call(op) EXCEPT !.column = column, !.alias = as]
JoinCall(op, path, as) == [Call(op) EXCEPT !.column = path, !.alias = Some(as)]
BracketCall(op, inner) == [Call(op) EXCEPT !.isBracket = TRUE, !.bracket = inner]
OrderCall(column, direction, nulls) ==
  [Call("orderBy") EXCEPT !.column = column, !.sql = direction, !.nulls = nulls]
NumberCall(op, n) == [Call(op) EXCEPT !.arg = n]

(* A clause `<column> <sql> <placeholders>` with its parameter object *)
Clause(column, sql, placeholders, params) ==
  [column |-> column, sql |-> sql, placeholders |-> placeholders, params |-> params]

WhereCall(op, c) ==
  [Call(op) EXCEPT !.column = c.column, !.sql = c.sql,
                   !.placeholders = c.placeholders, !.params = c.params]

-----------------------------------------------------------------------------
(* where-builder.ts: WhereBuilder.buildWhereClause and                     *)
(* applyWhereConditions.                                                   *)

(* `value instanceof In` and the like: typeorm's In, Between, Like,        *)
(* MoreThan, MoreThanOrEqual, LessThan, LessThanOrEqual and Not are plain  *)
(* functions that return `new FindOperator(type, value)`, so no value has  *)
(* the prototype of one of them in its chain.                              *)
InstanceOf(value, factory) == FALSE

(* array[i - 1], undefined past the end *)
Elem(items, i) == IF i <= Len(items) THEN items[i] ELSE Undefined

Column(alias, field) == alias \o <<".">> \o field

buildWhereClause(alias, field, value, paramName) ==
  LET col == Column(alias, field)
      inner == value.inner[1]
      one(sql, v) == Clause(col, sql, <<paramName>>, <<[name |-> paramName, val |-> v]>>)
  IN IF InstanceOf(value, "In")
     THEN Clause(col, <<"IN">>, <<<<"..." >> \o paramName>>,
                 <<[name |-> paramName, val |-> inner]>>)
     ELSE IF InstanceOf(value, "Between")
     THEN Clause(col, <<"BETWEEN">>,
                 <<paramName \o <<"_start">>, paramName \o <<"_end">>>>,
                 <<[name |-> paramName \o <<"_start">>, val |-> Elem(inner.inner, 1)],
                   [name |-> paramName \o <<"_end">>, val |-> Elem(inner.inner, 2)]>>)
     ELSE IF InstanceOf(value, "Like") THEN one(<<"LIKE">>, inner)
     ELSE IF InstanceOf(value, "MoreThan") THEN one(<<">">>, inner)
     ELSE IF InstanceOf(value, "MoreThanOrEqual") THEN one(<<">=">>, inner)
     ELSE IF InstanceOf(value, "LessThan") THEN one(<<"<">>, inner)
     ELSE IF InstanceOf(value, "LessThanOrEqual") THEN one(<<"<=">>, inner)
     ELSE IF InstanceOf(value, "Not")
     THEN IF inner = Str(<<"IS_NULL">>)
          THEN Clause(col, <<"IS NOT NULL">>, <<>>, <<>>)
          ELSE one(<<"<>">>, inner)
     ELSE one(<<"=">>, value)

IsObject(value) == value.kind \in {"FindOperator", "array"}

(* paramName: field with dots replaced, "_", and the random suffix *)
ParamName(field, rnd) == ReplaceDots(field) \o <<"_", rnd>>

(* The alias and the column name a field resolves to, in the branch for    *)
(* values marked as not-equals.                                            *)
NotTargetParts(parts, alias) ==
  IF Len(parts) = 2
  THEN [alias |-> alias \o <<"__">> \o parts[1], field |-> parts[2]]
  ELSE [alias |-> alias \o <<"__">> \o parts[1] \o <<"__">> \o parts[2],
        field |-> parts[3]]

NotTarget(field, alias) ==
  IF Includes(field, RELATION_DELIMITER)
  THEN NotTargetParts(Split(field, RELATION_DELIMITER), alias)
  ELSE [alias |-> alias, field |-> field]

(* The same resolution in the branches for all other values *)
(* Every dotted field resolved as relation.field *)
WhereTargetParts_TwoLevel(parts, alias) ==
  [alias |-> alias \o <<"__">> \o parts[1], field |-> parts[2]]

WhereTargetParts(parts, alias) ==
  IF Len(parts) = 2
  THEN [alias |-> alias \o <<"__">> \o parts[1], field |-> parts[2]]
  ELSE [alias |-> alias \o <<"__">> \o parts[1] \o <<"__">> \o parts[2],
        field |-> parts[3]]

WhereTarget(field, alias) ==
  IF Includes(field, RELATION_DELIMITER)
  THEN WhereTargetParts(Split(field, RELATION_DELIMITER), alias)
  ELSE [alias |-> alias, field |-> field]

(* The clause of one entry of the conditions object, given the parameter   *)
(* name and the column the field resolves to in either branch              *)
ClauseFor(value, paramName, notColumn, whereAlias, whereField) ==
  IF InstanceOf(value, "Not") \/ (IsObject(value) /\ value.requiresNotEquals)
  THEN IF value.inner[1] = Str(<<"IS_NULL">>)
       THEN Clause(notColumn, <<"IS NOT NULL">>, <<>>, <<>>)
       ELSE Clause(notColumn, <<"<>">>, <<paramName>>,
                   <<[name |-> paramName, val |-> value.inner[1]]>>)
  ELSE IF value = Str(<<"IS_NULL">>)
       THEN Clause(Column(whereAlias, whereField), <<"IS NULL">>, <<>>, <<>>)
  ELSE IF IsObject(value)
       THEN buildWhereClause(whereAlias, whereField, value, paramName)
  ELSE Clause(Column(whereAlias, whereField), <<"=">>, <<paramName>>,
              <<[name |-> paramName, val |-> value]>>)

ResolvedClause(value, paramName, nt, wt) ==
  ClauseFor(value, paramName, Column(nt.alias, nt.field), wt.alias, wt.field)

ConditionClause(field, value, alias, rnd) ==
  ResolvedClause(value, ParamName(field, rnd), NotTarget(field, alias),
                 WhereTarget(field, alias))

(* applyWhereConditions: the calls made on the sub-builder for one         *)
(* AND-group; rnds[i] is the outcome of Math.random for entry i.           *)
RECURSIVE ApplyEntries(_, _, _, _)
ApplyEntries(conditions, alias, rnds, i) ==
  IF i > Len(conditions) THEN <<>>
  ELSE <<WhereCall(IF i = 1 THEN "where" ELSE "andWhere",
                   ConditionClause(conditions[i].key, conditions[i].val, alias, rnds[i]))>>
       \o ApplyEntries(conditions, alias, rnds, i + 1)

applyWhereConditions(conditions, alias, rnds) == ApplyEntries(conditions, alias, rnds, 1)

-----------------------------------------------------------------------------
(* Letter case of the word symbols (toUpperCase / toLowerCase).            *)

UpperSym(c) ==
  CASE c \in {"asc", "Asc"} -> "ASC"
    [] c \in {"desc", "Desc"} -> "DESC"
    [] c \in {"nulls first", "Nulls First"} -> "NULLS FIRST"
    [] c \in {"nulls_first", "Nulls_First"} -> "NULLS_FIRST"
    [] c \in {"nulls last", "Nulls Last"} -> "NULLS LAST"
    [] c \in {"nulls_last", "Nulls_Last"} -> "NULLS_LAST"
    [] c = "up" -> "UP"
    [] OTHER -> c

LowerSym(c) ==
  CASE c \in {"INNER", "Inner"} -> "inner"
    [] c \in {"LEFT", "Left"} -> "left"
    [] c \in {"TRUE", "True"} -> "true"
    [] c \in {"FALSE", "False"} -> "false"
    [] c = "YES" -> "yes"
    [] OTHER -> c

toUpperCase(s) == [i \in 1..Len(s) |-> UpperSym(s[i])]
toLowerCase(s) == [i \in 1..Len(s) |-> LowerSym(s[i])]

-----------------------------------------------------------------------------
(* utils.ts: getEntityColumns.                                             *)

StatusColumns ==
  <<"id", "name", "color", "order", "categoryId", "spaceId", "fileId", "folderId",
    "deletedAt", "createdAt", "updatedAt", "clickupId">>
OwnerColumns ==
  <<"id", "jobTitle", "centralId", "email", "firstName", "lastName", "fullName",
    "username", "avatar", "birthDate", "lastActive", "isInvited", "deletedAt",
    "createdAt", "updatedAt">>
SubtasksColumns ==
  <<"statusCount", "priorityCount", "assignedCount", "markdownDescription",
    "subtaskCount", "taskPath", "clickupUserEmail", "clickupParentId", "id", "name",
    "description", "estimation", "order", "priority", "startDate", "dueDate",
    "parentId", "statusId", "fileId", "ownerId", "assigned_to", "dependencies",
    "deletedAt", "createdAt", "updatedAt", "importId", "clickupId">>
CategoryColumns == <<"id", "name", "color", "order", "deletedAt", "createdAt", "updatedAt">>
TagsColumns == <<"id", "name", "color", "deletedAt", "createdAt", "updatedAt">>
FileColumns == <<"id", "name", "size", "type", "url", "deletedAt", "createdAt", "updatedAt">>
TimersColumns == <<"id", "start", "end", "duration", "deletedAt", "createdAt", "updatedAt">>
CommentsColumns == <<"id", "text", "deletedAt", "createdAt", "updatedAt">>
NotificationsColumns == <<"id", "type", "deletedAt", "createdAt", "updatedAt">>
CustomFieldsValuesColumns == <<"id", "value", "deletedAt", "createdAt", "updatedAt">>

getEntityColumns(entityName) ==
  CASE entityName = <<"status">> -> StatusColumns
    [] entityName = <<"owner">> -> OwnerColumns
    [] entityName = <<"subtasks">> -> SubtasksColumns
    [] entityName = <<"category">> -> CategoryColumns
    [] entityName = <<"tags">> -> TagsColumns
    [] entityName = <<"file">> -> FileColumns
    [] entityName = <<"timers">> -> TimersColumns
    [] entityName = <<"attachments">> -> FileColumns
    [] entityName = <<"comments">> -> CommentsColumns
    [] entityName = <<"notifications">> -> NotificationsColumns
    [] entityName = <<"customFieldsValues">> -> CustomFieldsValuesColumns
    [] OTHER -> <<"id">>

(* The fixed list of root-table columns added for the root wildcard *)
RootFields ==
  <<"statusCount", "priorityCount", "assignedCount", "markdownDescription",
    "subtaskCount", "taskPath", "clickupUserEmail", "clickupParentId", "name",
    "description", "estimation", "order", "priority", "startDate", "dueDate",
    "parentId", "statusId", "fileId", "ownerId", "assigned_to", "dependencies",
    "deletedAt", "createdAt", "updatedAt", "importId", "clickupId">>

-----------------------------------------------------------------------------
(* builder.ts: QueryBuilder.buildAdvanced.  The assembly state st is        *)
(* [calls, joined, selected, sortFields]: the calls made so far, the        *)
(* joinedRelations and selectedColumns sets and the sortFields set (a       *)
(* sequence without repetition, in insertion order).                        *)

RelationAlias(alias, relation) == alias \o <<"__">> \o relation

SetAdd(seq, x) == IF \E i \in 1..Len(seq) : seq[i] = x THEN seq ELSE Append(seq, x)

RECURSIVE SetDelete(_, _)
SetDelete(seq, x) ==
  IF Len(seq) = 0 THEN <<>>
  ELSE IF seq[1] = x THEN SetDelete(Tail(seq), x)
       ELSE <<seq[1]>> \o SetDelete(Tail(seq), x)

(* if (!selectedColumns.has(columnRef)) { addSelect(...); add(columnRef) } *)
AddSelect(st, columnRef, as) ==
  IF columnRef \in st.selected THEN st
  ELSE [st EXCEPT !.calls = Append(@, SelectCall("addSelect", columnRef, as)),
                  !.selected = @ \cup {columnRef}]

(* relationColumns.forEach: every column of the relation under its alias *)
RECURSIVE AddColumns(_, _, _)
AddColumns(st, relationAlias, columns) ==
  IF Len(columns) = 0 THEN st
  ELSE AddColumns(AddSelect(st, Column(relationAlias, <<columns[1]>>),
                            Some(relationAlias \o <<"_", columns[1]>>)),
                  relationAlias, Tail(columns))

Join(st, op, path, as) == [st EXCEPT !.calls = Append(@, JoinCall(op, path, as))]

(* The relation is joined but not recorded as joined *)
MarkJoined_Forgotten(st, key) == st

(* joinedRelations.add(key) *)
MarkJoined(st, key) == [st EXCEPT !.joined = @ \cup {key}]

(* sortFields: the fields of the sort parameter *)
RECURSIVE CollectSortFields(_, _)
CollectSortFields(acc, sortConditions) ==
  IF Len(sortConditions) = 0 THEN acc
  ELSE LET parts == Split(sortConditions[1], VALUE_DELIMITER)
           field == parts[1]
       IN CollectSortFields(
            IF Len(sortConditions[1]) > 0 /\ Len(field) > 0
            THEN SetAdd(acc, field) ELSE acc,
            Tail(sortConditions))

SortFieldsOf(sort) ==
  IF Truthy(sort)
  THEN CollectSortFields(<<>>, Split(Get(sort), CONDITION_DELIMITER))
  ELSE <<>>

(* identifyNestedRelations: id is [wildcards, nested]; nested is the map    *)
(* parent -> children as a sequence of <<parent, child>> in insertion order *)
RECURSIVE IdentifyInSelect(_, _)
IdentifyInSelect(id, selectFields) ==
  IF Len(selectFields) = 0 THEN id
  ELSE LET field == selectFields[1]
           parts == Split(field, RELATION_DELIMITER)
           nestedField == JoinWith(Slice(parts, 3), RELATION_DELIMITER)
           next ==
             IF ~Includes(field, RELATION_DELIMITER) THEN id
             ELSE IF Len(parts) = 2
             THEN IF parts[2] = <<"*">>
                  THEN [id EXCEPT !.wildcards = @ \cup {parts[1]}]
                  ELSE id
             ELSE [nested |-> SetAdd(id.nested, <<parts[1], parts[2]>>),
                   wildcards |->
                     IF nestedField = <<"*">>
                     THEN id.wildcards \cup {parts[1] \o <<".">> \o parts[2]}
                     ELSE id.wildcards]
       IN IdentifyInSelect(next, Tail(selectFields))

identifyNestedRelations(id, selectString) ==
  IdentifyInSelect(id, Split(selectString, VALUE_DELIMITER))

(* identifyNestedRelationsInFilter *)
RECURSIVE IdentifyInConditions(_, _)
IdentifyInConditions(nested, andConditions) ==
  IF Len(andConditions) = 0 THEN nested
  ELSE LET condition == andConditions[1]
           parts == Split(condition, LOOKUP_DELIMITER)
           field == parts[1]
           fieldParts == Split(field, RELATION_DELIMITER)
           next ==
             IF Len(Trim(condition)) = 0 THEN nested
             ELSE IF Len(parts) < 2 THEN nested
             ELSE IF Len(field) = 0 THEN nested
             ELSE IF Includes(field, RELATION_DELIMITER) /\ Len(fieldParts) > 2
             THEN SetAdd(nested, <<fieldParts[1], fieldParts[2]>>)
             ELSE nested
       IN IdentifyInConditions(next, Tail(andConditions))

RECURSIVE IdentifyInGroups(_, _)
IdentifyInGroups(nested, orGroups) ==
  IF Len(orGroups) = 0 THEN nested
  ELSE IdentifyInGroups(
         IdentifyInConditions(nested, Split(orGroups[1], AND_SEPARATOR)),
         Tail(orGroups))

identifyNestedRelationsInFilter(nested, filterString) ==
  IdentifyInGroups(nested, Split(filterString, OR_SEPARATOR))

(* fields.forEach of the root wildcard *)
RECURSIVE AddRootFields(_, _, _)
AddRootFields(st, alias, fields) ==
  IF Len(fields) = 0 THEN st
  ELSE AddRootFields(AddSelect(st, Column(alias, <<fields[1]>>), None),
                     alias, Tail(fields))

(* A select token relation.subField *)
SelectRelationField(st, parts, alias, wildcards) ==
  LET relation == parts[1]
      subField == parts[2]
      relationAlias == RelationAlias(alias, relation)
      path == Column(alias, relation)
      joined ==
        IF relation \in st.joined THEN st
        ELSE MarkJoined(
               IF relation \in wildcards
               THEN AddColumns(Join(st, "leftJoin", path, relationAlias),
                               relationAlias, getEntityColumns(relation))
               ELSE Join(st, "leftJoin", path, relationAlias),
               relation)
  IN IF Len(relation) = 0 THEN st
     ELSE IF relation \notin wildcards /\ Len(subField) > 0 /\ subField # <<"*">>
          THEN AddSelect(joined, Column(relationAlias, subField),
                         Some(relationAlias \o <<"_">> \o subField))
          ELSE joined

(* A select token parent.child.field... *)
SelectNestedField(st, parts, alias, wildcards) ==
  LET parentRelation == parts[1]
      childRelation == parts[2]
      nestedField == JoinWith(Slice(parts, 3), RELATION_DELIMITER)
      parentAlias == RelationAlias(alias, parentRelation)
      nestedAlias == RelationAlias(parentAlias, childRelation)
      st1 == IF parentRelation \in st.joined THEN st
             ELSE MarkJoined(Join(st, "leftJoin", Column(alias, parentRelation), parentAlias),
                             parentRelation)
      nestedRelationKey == Column(parentAlias, childRelation)
      st2 == IF nestedRelationKey \in st1.joined THEN st1
             ELSE MarkJoined(Join(st1, "leftJoin", nestedRelationKey, nestedAlias),
                             nestedRelationKey)
      nestedRelationFullKey == parentRelation \o <<".">> \o childRelation
  IN IF Len(parentRelation) = 0 \/ Len(childRelation) = 0 THEN st
     ELSE IF nestedField = <<"*">> \/ nestedRelationFullKey \in wildcards
          THEN AddColumns(st2, nestedAlias, getEntityColumns(childRelation))
     ELSE IF Len(nestedField) > 0
          THEN AddSelect(st2, Column(nestedAlias, nestedField),
                         Some(nestedAlias \o <<"_">> \o nestedField))
     ELSE st2

(* One iteration of selectFields.forEach (second pass) *)
SelectField(st, field, alias, hasRootWildcard, wildcards) ==
  LET parts == Split(field, RELATION_DELIMITER)
  IN IF Len(field) = 0 THEN st
     ELSE IF field = <<"*">> THEN st
     ELSE IF Includes(field, RELATION_DELIMITER)
          THEN IF Len(parts) = 2
               THEN SelectRelationField(st, parts, alias, wildcards)
               ELSE SelectNestedField(st, parts, alias, wildcards)
     ELSE IF field # <<"id">> /\ ~hasRootWildcard
          THEN [AddSelect(st, Column(alias, field), None)
                  EXCEPT !.sortFields = SetDelete(@, field)]
     ELSE st

RECURSIVE SelectFields(_, _, _, _, _)
SelectFields(st, selectFields, alias, hasRootWildcard, wildcards) ==
  IF Len(selectFields) = 0 THEN st
  ELSE SelectFields(SelectField(st, selectFields[1], alias, hasRootWildcard, wildcards),
                    Tail(selectFields), alias, hasRootWildcard, wildcards)

(* One iteration of sortFields.forEach: a sort field not selected so far *)
IncludeSortField(st, field, alias) ==
  LET parts == Split(field, RELATION_DELIMITER)
      relation == parts[1]
      subField == parts[2]
      relationAlias == RelationAlias(alias, relation)
      st1 == IF relation \in st.joined THEN st
             ELSE MarkJoined(Join(st, "leftJoin", Column(alias, relation), relationAlias),
                             relation)
  IN IF Len(field) = 0 THEN st
     ELSE IF Includes(field, RELATION_DELIMITER)
          THEN IF Len(parts) < 2 THEN st
               ELSE IF Len(relation) = 0 \/ Len(subField) = 0 THEN st
               ELSE AddSelect(st1, Column(relationAlias, subField), None)
     ELSE AddSelect(st, Column(alias, field), None)

RECURSIVE IncludeSortFields(_, _, _)
IncludeSortFields(st, fields, alias) ==
  IF Len(fields) = 0 THEN st
  ELSE IncludeSortFields(IncludeSortField(st, fields[1], alias), Tail(fields), alias)

(* "Handle select fields" *)
HandleSelectFields(st, select, alias, wildcards) ==
  LET selectFields == Split(Get(select), VALUE_DELIMITER)
      hasRootWildcard == \E i \in 1..Len(selectFields) : selectFields[i] = <<"*">>
      idRef == Column(alias, <<"id">>)
      st0 == [st EXCEPT !.calls = Append(@, SelectCall("select", idRef, None)),
                        !.selected = @ \cup {idRef}]
      st1 == IF hasRootWildcard
             THEN [AddRootFields(st0, alias, RootFields) EXCEPT !.sortFields = <<>>]
             ELSE st0
      st2 == SelectFields(st1, selectFields, alias, hasRootWildcard, wildcards)
  IN IF ~Truthy(select)
     THEN [st EXCEPT !.calls = Append(@, SelectCall("select", Column(alias, <<"*">>), None))]
     ELSE IF hasRootWildcard THEN st2
     ELSE IncludeSortFields(st2, st2.sortFields, alias)

(* childRelations.forEach of one joined relation *)
RECURSIVE JoinChildren(_, _, _, _, _)
JoinChildren(st, nested, relation, relationAlias, wildcards) ==
  IF Len(nested) = 0 THEN st
  ELSE LET childRelation == nested[1][2]
           nestedAlias == RelationAlias(relationAlias, childRelation)
           nestedRelationKey == relation \o <<".">> \o childRelation
           st1 == MarkJoined(Join(st, "leftJoin", Column(relationAlias, childRelation),
                                  nestedAlias),
                             nestedRelationKey)
           next ==
             IF nested[1][1] # relation \/ Len(childRelation) = 0 THEN st
             ELSE IF nestedRelationKey \in st.joined THEN st
             ELSE IF nestedRelationKey \in wildcards
                  THEN AddColumns(st1, nestedAlias, getEntityColumns(childRelation))
                  ELSE st1
       IN JoinChildren(next, Tail(nested), relation, relationAlias, wildcards)

(* One iteration of joins.forEach *)
JoinOne(st, join, select, alias, wildcards, nested) ==
  LET parts == Split(join, <<":">>)
      relation == parts[1]
      joinType == IF Len(parts) >= 2 THEN parts[2] ELSE <<"left">>
      relationAlias == RelationAlias(alias, relation)
      path == Column(alias, relation)
      isInSelect == IsDefined(select) /\ Includes(Get(select), relation \o <<".">>)
      hasWildcard == IsDefined(select) /\ Includes(Get(select), relation \o <<".", "*">>)
      op == IF toLowerCase(joinType) = <<"inner">> THEN "innerJoin" ELSE "leftJoin"
      st1 == IF ~isInSelect THEN Join(st, op, path, relationAlias)
             ELSE IF hasWildcard /\ relation \notin wildcards
                  THEN AddColumns(Join(st, op, path, relationAlias),
                                  relationAlias, getEntityColumns(relation))
             ELSE st
  IN IF Len(join) = 0 THEN st
     ELSE IF Len(relation) = 0 THEN st
     ELSE IF relation \in st.joined THEN st
     ELSE JoinChildren(MarkJoined(st1, relation), nested, relation, relationAlias, wildcards)

RECURSIVE JoinAll(_, _, _, _, _, _)
JoinAll(st, joins, select, alias, wildcards, nested) ==
  IF Len(joins) = 0 THEN st
  ELSE JoinAll(JoinOne(st, joins[1], select, alias, wildcards, nested),
               Tail(joins), select, alias, wildcards, nested)

(* "Handle joins" *)
HandleJoinParam(st, join, select, alias, wildcards, nested) ==
  IF ~Truthy(join) THEN st
  ELSE JoinAll(st, Split(Get(join), VALUE_DELIMITER), select, alias, wildcards, nested)

(* "Handle where conditions": one where(Brackets) for the first group and  *)
(* one orWhere(Brackets) for every later group.  rnds holds the outcomes   *)
(* of Math.random, one per entry, over all groups in order.                *)
GroupMethod_AndWhere(i) == IF i = 1 THEN "where" ELSE "andWhere"

(* The builder method that receives the Brackets of group i *)
GroupMethod(i) == IF i = 1 THEN "where" ELSE "orWhere"

RECURSIVE BracketCalls(_, _, _, _)
BracketCalls(whereConditions, alias, rnds, i) ==
  IF i > Len(whereConditions) THEN <<>>
  ELSE <<BracketCall(GroupMethod(i),
                     applyWhereConditions(whereConditions[i], alias,
                                          SubSeq(rnds, 1, Len(whereConditions[i]))))>>
       \o BracketCalls(whereConditions, alias,
                       Slice(rnds, Len(whereConditions[i]) + 1), i + 1)

RECURSIVE CountEntries(_)
CountEntries(groups) ==
  IF Len(groups) = 0 THEN 0 ELSE Len(groups[1]) + CountEntries(Tail(groups))

(* createOrderArray: the order object as a sequence of entries *)
OrderEntry(parts) ==
  LET second == At(parts, 2)
      direction == toUpperCase(IF Truthy(second) THEN Get(second) ELSE <<"ASC">>)
      nullsOption == toUpperCase(parts[3])
      nulls == IF Len(parts) > 2
               THEN IF nullsOption \in {<<"NULLS FIRST">>, <<"NULLS_FIRST">>}
                    THEN Some(<<"NULLS FIRST">>)
                    ELSE IF nullsOption \in {<<"NULLS LAST">>, <<"NULLS_LAST">>}
                         THEN Some(<<"NULLS LAST">>)
                         ELSE None
               ELSE None
  IN [direction |-> direction, nulls |-> nulls]

RECURSIVE OrderEntries(_, _)
OrderEntries(order, sortConditions) ==
  IF Len(sortConditions) = 0 THEN order
  ELSE LET parts == Split(sortConditions[1], VALUE_DELIMITER)
       IN OrderEntries(
            IF Len(parts) > 0 /\ Len(parts[1]) > 0
            THEN Assign(order, parts[1], OrderEntry(parts))
            ELSE order,
            Tail(sortConditions))

createOrderArray(sortString) ==
  OrderEntries(<<>>, Split(sortString, CONDITION_DELIMITER))

(* "Handle sorting": one orderBy per entry of the order object *)
OrderByCall(field, entry, alias) ==
  LET parts == Split(field, RELATION_DELIMITER)
      relation == parts[1]
      subField == parts[2]
      columnAlias == RelationAlias(alias, relation) \o <<"_">> \o subField
  IN IF Includes(field, RELATION_DELIMITER)
     THEN IF Len(relation) = 0 \/ Len(subField) = 0 THEN <<>>
          ELSE <<OrderCall(columnAlias, entry.direction, entry.nulls)>>
     ELSE <<OrderCall(Column(alias, field), entry.direction, entry.nulls)>>

RECURSIVE OrderByCalls(_, _)
OrderByCalls(order, alias) ==
  IF Len(order) = 0 THEN <<>>
  ELSE OrderByCall(order[1].key, order[1].val, alias) \o OrderByCalls(Tail(order), alias)

(* JavaScript arithmetic on numbers that may be NaN *)
Times(a, b) == IF a.kind = "NaN" \/ b.kind = "NaN" THEN NaN ELSE Num(a.num * b.num)
Minus(a, b) == IF a.kind = "NaN" \/ b.kind = "NaN" THEN NaN ELSE Num(a.num - b.num)

(* "Handle pagination" *)
PaginationCalls(limit, page) ==
  LET first == IF Truthy(limit) THEN <<NumberCall("take", ParseInt(Get(limit)))>>
               ELSE IF Len(DEFAULT_LIMIT) > 0
                    THEN <<NumberCall("take", ParseInt(DEFAULT_LIMIT))>>
                    ELSE <<>>
      lim == IF Truthy(limit) THEN ParseInt(Get(limit))
             ELSE IF Len(DEFAULT_LIMIT) > 0 THEN ParseInt(DEFAULT_LIMIT) ELSE Num(25)
      pg == ParseInt(Get(page))
  IN IF Truthy(page)
     THEN first \o <<NumberCall("skip", Times(lim, Minus(pg, Num(1)))),
                     NumberCall("take", lim)>>
     ELSE first

-----------------------------------------------------------------------------
(* builder.ts: QueryBuilder.build.                                         *)

(* JSON.parse of a lower-cased string: the literals true, false and null   *)
(* and integers parse, anything else is a SyntaxError.                     *)
JsonParse(s) ==
  IF s = <<"true">> THEN [threw |-> FALSE, val |-> Bool(TRUE)]
  ELSE IF s = <<"false">> THEN [threw |-> FALSE, val |-> Bool(FALSE)]
  ELSE IF s = <<"null">> THEN [threw |-> FALSE, val |-> Null]
  ELSE IF Len(s) > 0 /\ s[1] # "+" /\ s[1] # " " /\ s[Len(s)] # " "
          /\ ToNumber(s).kind = "number"
       THEN [threw |-> FALSE, val |-> ToNumber(s)]
  ELSE [threw |-> TRUE, val |-> Undefined]

RECURSIVE SelectObject(_, _)
SelectObject(acc, selectFields) ==
  IF Len(selectFields) = 0 THEN acc
  ELSE SelectObject(Assign(acc, selectFields[1], TRUE), Tail(selectFields))

(* parseInt(x as string, 10) where x may be undefined *)
ParseIntOpt(o) == IF IsDefined(o) THEN ParseInt(Get(o)) ELSE NaN

EmptyOutput ==
  [select |-> None, relations |-> None, order |-> None, cache |-> None,
   take |-> None, skip |-> None, where |-> None]

(* The guard of every branch of build *)
Enters(param) == ~isValidParam(param)

buildFrom(q, parsedCache, parsedFilter, limitnum) ==
  IF \/ Enters(q.select) /\ ~IsDefined(q.select)
     \/ Enters(q.join) /\ ~IsDefined(q.join)
     \/ Enters(q.sort) /\ ~IsDefined(q.sort)
     \/ Enters(q.cache) /\ (~IsDefined(q.cache) \/ parsedCache.threw)
     \/ Enters(q.filter) /\ parsedFilter.threw
  THEN [threw |-> TRUE, output |-> EmptyOutput]
  ELSE [threw |-> FALSE,
        output |->
          [select |-> IF Enters(q.select)
                      THEN Some(SelectObject(<<>>, Split(Get(q.select), VALUE_DELIMITER)))
                      ELSE None,
           relations |-> IF Enters(q.join)
                         THEN Some(Split(Get(q.join), VALUE_DELIMITER))
                         ELSE None,
           order |-> IF Enters(q.sort) THEN Some(createOrderArray(Get(q.sort))) ELSE None,
           cache |-> IF Enters(q.cache) THEN Some(parsedCache.val) ELSE None,
           take |-> IF Enters(q.page) THEN Some(limitnum)
                    ELSE IF Enters(q.limit) THEN Some(ParseIntOpt(q.limit))
                    ELSE None,
           skip |-> IF Enters(q.page)
                    THEN Some(Times(limitnum, Minus(ParseIntOpt(q.page), Num(1))))
                    ELSE None,
           where |-> IF Enters(q.filter) THEN Some(parsedFilter.result) ELSE None]]

(* parsedCache is JSON.parse(cache.toLowerCase()), parsedFilter the result  *)
(* of parseFilterString and limitnum the limit used by the page branch      *)
build(q) ==
  buildFrom(q,
            IF IsDefined(q.cache) THEN JsonParse(toLowerCase(Get(q.cache)))
            ELSE [threw |-> TRUE, val |-> Undefined],
            parseFilterString(q.filter),
            ParseInt(IF Truthy(q.limit) THEN Get(q.limit) ELSE DEFAULT_LIMIT))

-----------------------------------------------------------------------------
(* The state machine: one call of build, or one call of buildAdvanced on a  *)
(* fresh query builder, section by section.                                 *)

(* The outcomes of Math.random().toString(36).substring(7) told apart *)
RandomOutcomes == {"0", "1"}

AssemblyState ==
  [calls |-> calls, joined |-> joinedRelations, selected |-> selectedColumns,
   sortFields |-> sortFields]

SetAssembly(st) ==
  /\ calls' = st.calls
  /\ joinedRelations' = st.joined
  /\ selectedColumns' = st.selected
  /\ sortFields' = st.sortFields

Return(r) == output' = r.output /\ threw' = r.threw

Build ==
  /\ mode = "build" /\ pc = "start"
  /\ Return(build(query))
  /\ pc' = "done"
  /\ UNCHANGED <<mode, query, rootAlias, calls, joinedRelations, selectedColumns,
                 relationWildcards, nestedRelations, sortFields>>

(* The first pass over select and filter *)
FirstPass(q) ==
  LET id == IF Truthy(q.select)
            THEN identifyNestedRelations([wildcards |-> {}, nested |-> <<>>],
                                         Get(q.select))
            ELSE [wildcards |-> {}, nested |-> <<>>]
  IN [wildcards |-> id.wildcards,
      nested |-> IF Truthy(q.filter)
                 THEN identifyNestedRelationsInFilter(id.nested, Get(q.filter))
                 ELSE id.nested]

(* The tracking sets are kept from the call before *)
Prepare_KeepingSets ==
  /\ mode = "buildAdvanced" /\ pc = "start"
  /\ relationWildcards' = FirstPass(query).wildcards
  /\ nestedRelations' = FirstPass(query).nested
  /\ sortFields' = SortFieldsOf(query.sort)
  /\ pc' = "select"
  /\ UNCHANGED <<mode, query, rootAlias, calls, output, threw, joinedRelations,
                 selectedColumns>>

(* New tracking sets, the sort fields and the first pass *)
Prepare ==
  /\ mode = "buildAdvanced" /\ pc = "start"
  /\ joinedRelations' = {}
  /\ selectedColumns' = {}
  /\ relationWildcards' = FirstPass(query).wildcards
  /\ nestedRelations' = FirstPass(query).nested
  /\ sortFields' = SortFieldsOf(query.sort)
  /\ pc' = "select"
  /\ UNCHANGED <<mode, query, rootAlias, calls, output, threw>>

HandleSelect ==
  /\ pc = "select"
  /\ SetAssembly(HandleSelectFields(AssemblyState, query.select, rootAlias, relationWildcards))
  /\ pc' = "joins"
  /\ UNCHANGED <<mode, query, rootAlias, output, threw, relationWildcards, nestedRelations>>

HandleJoins ==
  /\ pc = "joins"
  /\ SetAssembly(HandleJoinParam(AssemblyState, query.join, query.select, rootAlias,
                                 relationWildcards, nestedRelations))
  /\ pc' = "where"
  /\ UNCHANGED <<mode, query, rootAlias, output, threw, relationWildcards, nestedRelations>>

ApplyFilter(parsed) ==
  IF parsed.threw
  THEN /\ threw' = TRUE
       /\ pc' = "done"
       /\ calls' = calls
  ELSE /\ \E rnds \in [1..CountEntries(parsed.result) -> RandomOutcomes] :
            calls' = calls \o BracketCalls(parsed.result, rootAlias, rnds, 1)
       /\ threw' = threw
       /\ pc' = "sorting"

HandleWhere ==
  /\ pc = "where"
  /\ ApplyFilter(parseFilterString(query.filter))
  /\ UNCHANGED <<mode, query, rootAlias, output, joinedRelations, selectedColumns,
                 relationWildcards, nestedRelations, sortFields>>

HandleSorting ==
  /\ pc = "sorting"
  /\ calls' = IF Truthy(query.sort)
              THEN calls \o OrderByCalls(createOrderArray(Get(query.sort)), rootAlias)
              ELSE calls
  /\ pc' = "pagination"
  /\ UNCHANGED <<mode, query, rootAlias, output, threw, joinedRelations, selectedColumns,
                 relationWildcards, nestedRelations, sortFields>>

HandlePagination ==
  /\ pc = "pagination"
  /\ calls' = calls \o PaginationCalls(query.limit, query.page)
  /\ pc' = "done"
  /\ UNCHANGED <<mode, query, rootAlias, output, threw, joinedRelations, selectedColumns,
                 relationWildcards, nestedRelations, sortFields>>

Next ==
  \/ Build
  \/ Prepare
  \/ HandleSelect
  \/ HandleJoins
  \/ HandleWhere
  \/ HandleSorting
  \/ HandlePagination

(* The next call on the same QueryBuilder instance, with a new parameter  *)
(* bag and a fresh query builder: the instance holds the options and the   *)
(* where builder, which no method assigns.                                 *)
StartCall(m, q) ==
  /\ pc = "done"
  /\ mode' = m
  /\ query' = q
  /\ pc' = "start"
  /\ calls' = <<>>
  /\ output' = EmptyOutput
  /\ threw' = FALSE
  /\ UNCHANGED <<rootAlias, joinedRelations, selectedColumns, relationWildcards,
                 nestedRelations, sortFields>>

Fresh ==
  /\ mode \in {"build", "buildAdvanced"}
  /\ rootAlias = <<"task">>
  /\ pc = "start"
  /\ calls = <<>>
  /\ output = EmptyOutput
  /\ threw = FALSE
  /\ joinedRelations = {}
  /\ selectedColumns = {}
  /\ relationWildcards = {}
  /\ nestedRelations = <<>>
  /\ sortFields = <<>>

-----------------------------------------------------------------------------
(* Inputs.                                                                 *)

Query(select, join, sort, cache, limit, page, filter) ==
  [select |-> select, join |-> join, sort |-> sort, cache |-> cache,
   limit |-> limit, page |-> page, filter |-> filter]

(* Non-empty sequences over S of length at most n *)
SeqsUpTo(S, n) == UNION {[1..k -> S] : k \in 1..n}

(* The decimal digits of an integer *)
RECURSIVE NatString(_)
NatString(n) ==
  IF n < 10 THEN <<Digits[n + 1]>>
  ELSE NatString(n \div 10) \o <<Digits[(n % 10) + 1]>>

IntString(i) == IF i < 0 THEN <<"-">> \o NatString(0 - i) ELSE NatString(i)

(* A condition field||operator or field||operator||value *)
Condition(field, operator, value) ==
  field \o LOOKUP_DELIMITER \o operator
    \o (IF IsDefined(value) THEN LOOKUP_DELIMITER \o Get(value) ELSE <<>>)

FieldShapes ==
  {<<"name">>, <<"status", ".", "name">>, <<"status", ".", "category", ".", "name">>}

OperatorKeywords ==
  {EXACT, NOT_EQUALS, CONTAINS, STARTS_WITH, ENDS_WITH, IS_NULL, GT, GTE, LT, LTE,
   IN_, BETWEEN}

Operators == OperatorKeywords \cup {NOT \o op : op \in OperatorKeywords}

FilterValues ==
  {Some(<<"John">>), Some(<<"2", "5">>), Some(<<>>), Some(<<"IS_NULL">>),
   Some(<<"2024-01-15">>), Some(<<"2024-01-15 10:30:00">>), Some(<<"1", ",", "2">>),
   None}

SingleConditions ==
  {Condition(f, op, v) : f \in FieldShapes, op \in Operators, v \in FilterValues}

(* Pieces of longer filters: conditions on distinct fields, a blank, a      *)
(* malformed condition, and groups that mix them or repeat a field          *)
NameIsJohn == Condition(<<"name">>, EXACT, Some(<<"John">>))
StatusNameIsNot25 == Condition(<<"status", ".", "name">>, NOT \o EXACT, Some(<<"2", "5">>))
AgeAbove5 == Condition(<<"age">>, GT, Some(<<"5">>))
Blank == <<" ">>
Malformed == <<"name">>
ConditionPool == <<NameIsJohn, StatusNameIsNot25, AgeAbove5>>

MaxConds == 2
MaxGroups == 2

FilterGroups ==
  {JoinWith(SubSeq(ConditionPool, 1, k), AND_SEPARATOR) :
     k \in {n \in 1..MaxConds : n <= Len(ConditionPool)}}
  \cup {Blank, Malformed, AgeAbove5,
        JoinWith(<<NameIsJohn, Blank>>, AND_SEPARATOR),
        JoinWith(<<NameIsJohn, Condition(<<"name">>, GT, Some(<<"5">>))>>, AND_SEPARATOR)}

LongFilters == {JoinWith(f, OR_SEPARATOR) : f \in SeqsUpTo(FilterGroups, MaxGroups)}

(* Two conditions separated by the condition delimiter, alone and as the   *)
(* second OR-group, and a condition on a field with the nested delimiter   *)
NameThenAge == JoinWith(<<NameIsJohn, AgeAbove5>>, CONDITION_DELIMITER)
StatusHashName ==
  Condition(<<"status">> \o NESTED_DELIMITER \o <<"name">>, EXACT, Some(<<"John">>))
OwnerHashTeamHashTitle ==
  Condition(<<"owner">> \o NESTED_DELIMITER \o <<"team">> \o NESTED_DELIMITER \o <<"title">>,
            GT, Some(<<"5">>))
DelimitedFilters ==
  {NameThenAge, JoinWith(<<StatusNameIsNot25, NameThenAge>>, OR_SEPARATOR),
   StatusHashName, OwnerHashTeamHashTitle}

(* Conditions without a field or without an operator among well-formed    *)
(* ones, and two fields that differ by "." and "_"                         *)
NoField == Condition(<<>>, EXACT, Some(<<"John">>))
NoOperator == Condition(<<"age">>, <<>>, Some(<<"5">>))
SkippedFilters ==
  {JoinWith(<<NoField, NameIsJohn, NoOperator>>, AND_SEPARATOR),
   JoinWith(<<JoinWith(<<NoOperator, Malformed>>, AND_SEPARATOR),
              JoinWith(<<NameIsJohn, NoField, AgeAbove5>>, AND_SEPARATOR)>>, OR_SEPARATOR),
   JoinWith(<<StatusNameIsNot25,
              Condition(<<"status_name">>, EXACT, Some(<<"John">>))>>, AND_SEPARATOR)}

FilterInputs ==
  SingleConditions \cup LongFilters \cup DelimitedFilters \cup SkippedFilters \cup {<<>>}

Optional(S) == {None} \cup {Some(x) : x \in S}

InitFilter ==
  /\ Fresh
  /\ \E f \in Optional(FilterInputs) :
       query = Query(None, None, None, None, None, None, f)

SpecFilter == InitFilter /\ [][Next]_vars

(* Queries for the assembly of select, joins, where and ordering *)
SelectTokens ==
  {<<"*">>, <<"name">>, <<"status", ".", "*">>, <<"status", ".", "name">>,
   <<"status", ".", "category", ".", "name">>, <<"status", ".", "category", ".", "*">>,
   <<"owner", ".", "team", ".", "title">>, <<"owner", ".", "team", ".", "*">>}

MaxSelect == 2

SelectInputs == {JoinWith(t, VALUE_DELIMITER) : t \in SeqsUpTo(SelectTokens, MaxSelect)}

SortInputs ==
  {<<"name">>, <<"status", ".", "name", ",", "DESC">>,
   <<"status", ".", "category", ".", "name">>}

JoinInputs ==
  {<<"status">>, <<"status", ":", "inner", ",", "status">>}

NestedFilters ==
  {Condition(<<"status", ".", "category", ".", "name">>, EXACT, Some(<<"John">>)),
   Condition(<<"owner", ".", "team", ".", "title">>, NOT_EQUALS, Some(<<"2", "5">>))}

InitAssembly ==
  /\ Fresh
  /\ \E s \in Optional(SelectInputs), so \in Optional(SortInputs),
        j \in Optional(JoinInputs), f \in Optional(NestedFilters) :
       query = Query(s, j, so, None, None, None, f)

SpecAssembly == InitAssembly /\ [][Next]_vars

(* Queries for relation wildcards: known and unknown relations, alone,     *)
(* after and before other tokens                                           *)
WildcardTokens ==
  {<<"*">>, <<"name">>, <<"status", ".", "*">>, <<"status", ".", "name">>,
   <<"status", ".", "category", ".", "*">>, <<"status", ".", "category", ".", "name">>,
   <<"members", ".", "*">>}

(* Join parameters: plain, with a join type, and a relation that is also   *)
(* the child of a nested select token                                      *)
WildcardJoins ==
  {<<"status">>, <<"members">>, <<"category">>, <<"status", ":", "INNER">>,
   <<"members", ":", "inner", ",", "status">>}

(* Sort parameters of one and of two fields *)
WildcardSorts ==
  {<<"status", ".", "name">>,
   <<"name", ",", "asc", ";", "status", ".", "name", ",", "DESC", ",", "nulls last">>}

WildcardSelects == {JoinWith(t, VALUE_DELIMITER) : t \in SeqsUpTo(WildcardTokens, MaxSelect)}

InitWildcard ==
  /\ Fresh
  /\ \E s \in Optional(WildcardSelects), j \in Optional(WildcardJoins),
        so \in Optional(WildcardSorts) :
       query = Query(s, j, so, None, None, None, None)

SpecWildcard == InitWildcard /\ [][Next]_vars

(* Several calls on one QueryBuilder instance, each with any of these      *)
(* parameter bags and a fresh query builder                                *)
ReuseQueries ==
  {Query(s, j, so, c, None, None, f) :
     s \in {None, Some(<<"status", ".", "*">>), Some(<<"name", ",", "status", ".", "name">>)},
     j \in {None, Some(<<"status">>)},
     so \in {None, Some(<<"status", ".", "name">>)},
     c \in {None, Some(<<"true">>)},
     f \in {None, Some(NameIsJohn)}}

InitReuse ==
  /\ Fresh
  /\ query \in ReuseQueries

NextCall ==
  \E m \in {"build", "buildAdvanced"}, q \in ReuseQueries : StartCall(m, q)

NextReuse == Next \/ NextCall

SpecReuse == InitReuse /\ [][NextReuse]_vars

(* Parameter bags: every parameter absent, empty or present, and every     *)
(* pair of small integers as limit and page                                *)
MaxNumber == 2

NumberInputs == {IntString(i) : i \in (0 - MaxNumber)..MaxNumber}

Presence(value) == {None, Some(<<>>), Some(value)}

PresenceQueries ==
  {Query(s, j, so, c, l, p, f) :
     s \in Presence(<<"name">>), j \in Presence(<<"status">>),
     so \in Presence(<<"name", ",", "desc">>), c \in Presence(<<"TRUE">>),
     l \in Presence(<<"2">>), p \in Presence(<<"2">>),
     f \in Presence(NameIsJohn) \cup {Some(Blank), Some(Malformed)}}

PagingQueries ==
  {Query(o, o, o, c, l, p, f) :
     o \in {None, Some(<<"name">>)}, c \in {None, Some(<<"true">>)},
     l \in Optional(NumberInputs), p \in Optional(NumberInputs),
     f \in {None, Some(NameIsJohn)}}

InitParams ==
  /\ Fresh
  /\ query \in PresenceQueries \cup PagingQueries

SpecParams == InitParams /\ [][Next]_vars

-----------------------------------------------------------------------------
(* Vocabulary of the properties.                                           *)

AdvancedDone == mode = "buildAdvanced" /\ pc = "done" /\ ~threw
BuildDone == mode = "build" /\ pc = "done"

RECURSIVE CallsWithOp(_, _)
CallsWithOp(cs, ops) ==
  IF Len(cs) = 0 THEN <<>>
  ELSE (IF cs[1].op \in ops THEN <<cs[1]>> ELSE <<>>) \o CallsWithOp(Tail(cs), ops)

WhereCalls == CallsWithOp(calls, {"where", "andWhere", "orWhere"})
JoinCalls == CallsWithOp(calls, {"leftJoin", "innerJoin"})
SelectCalls == CallsWithOp(calls, {"select", "addSelect"})
OrderByCallsMade == CallsWithOp(calls, {"orderBy"})

(* The column a field is expected to resolve to under root alias task *)
ExpectedColumn(field) ==
  CASE field = <<"name">> -> <<"task", ".", "name">>
    [] field = <<"status", ".", "name">> -> <<"task", "__", "status", ".", "name">>
    [] field = <<"status", ".", "category", ".", "name">> ->
         <<"task", "__", "status", "__", "category", ".", "name">>

IsNotEqualFilter(field, value) ==
  \/ query.filter = Some(Condition(field, NOT_EQUALS, Some(value)))
  \/ query.filter = Some(Condition(field, NOT \o EXACT, Some(value)))

(* One bracketed where holding exactly the clause `column <> :p` with p     *)
(* bound to v                                                               *)
IsSingleNotEqual(column, v) ==
  /\ Len(WhereCalls) = 1
  /\ WhereCalls[1].op = "where" /\ WhereCalls[1].isBracket
  /\ Len(WhereCalls[1].bracket) = 1
  /\ LET c == WhereCalls[1].bracket[1]
     IN /\ c.op = "where"
        /\ c.column = column
        /\ c.sql = <<"<>">>
        /\ Len(c.placeholders) = 1
        /\ Len(c.params) = 1
        /\ c.params[1].name = c.placeholders[1]
        /\ c.params[1].val = v

(* C1: for every field shape and every value, field||$ne||value and         *)
(* field||!$eq||value both compile to the single clause `<column> <> :p`    *)
(* with p bound to the coerced value, never to an `=` clause.               *)
C1_NotEqualsCompilesToNe ==
  \A f \in FieldShapes : \A v \in FilterValues :
    (AdvancedDone /\ IsDefined(v) /\ IsNotEqualFilter(f, Get(v)))
      => IsSingleNotEqual(ExpectedColumn(f), ParseDateOrNumber(v))

(* The case of C1: a not-equal filter on a relation field was compiled *)
C1_Witness ==
  /\ AdvancedDone
  /\ IsNotEqualFilter(<<"status", ".", "name">>, <<"John">>)
  /\ Len(WhereCalls) = 1

(* C2: n >= 1 AND-groups give one where followed by n-1 orWhere, each       *)
(* wrapping one bracketed group whose first condition uses where and whose  *)
(* later conditions use andWhere; 0 groups give no where and no orWhere.    *)
C2_WhereThenOrWhere ==
  AdvancedDone =>
    LET groups == parseFilterString(query.filter).result
    IN /\ Len(WhereCalls) = Len(groups)
       /\ \A i \in 1..Len(WhereCalls) :
            /\ WhereCalls[i].op = (IF i = 1 THEN "where" ELSE "orWhere")
            /\ WhereCalls[i].isBracket
            /\ Len(WhereCalls[i].bracket) = Len(groups[i])
            /\ \A j \in 1..Len(WhereCalls[i].bracket) :
                 /\ WhereCalls[i].bracket[j].op = (IF j = 1 THEN "where" ELSE "andWhere")
                 /\ ~WhereCalls[i].bracket[j].isBracket

(* Two groups, the second holding two conditions *)
C2_Witness ==
  /\ AdvancedDone
  /\ Len(WhereCalls) = 2
  /\ Len(WhereCalls[2].bracket) = 2

-----------------------------------------------------------------------------
(* Vocabulary of the assembly properties.                                  *)

NoRepeat(seq) == Cardinality({seq[i] : i \in 1..Len(seq)}) = Len(seq)
Columns(cs) == [i \in 1..Len(cs) |-> cs[i].column]
Count(seq, x) == Cardinality({i \in 1..Len(seq) : seq[i] = x})

(* The tokens of the select parameter *)
TokensOf(select) == IF Truthy(select) THEN Split(Get(select), VALUE_DELIMITER) ELSE <<>>
HasToken(t) == \E i \in 1..Len(TokensOf(query.select)) : TokensOf(query.select)[i] = t

(* relation is named by an entry of the join parameter *)
JoinNames(relation) ==
  /\ Truthy(query.join)
  /\ \E i \in 1..Len(Split(Get(query.join), VALUE_DELIMITER)) :
       Split(Split(Get(query.join), VALUE_DELIMITER)[i], <<":">>)[1] = relation

Projected(column) == \E i \in 1..Len(SelectCalls) : SelectCalls[i].column = column
ProjectedAs(column, as) ==
  \E i \in 1..Len(SelectCalls) :
    SelectCalls[i].column = column /\ SelectCalls[i].alias = Some(as)
Joined(path, as) ==
  \E i \in 1..Len(JoinCalls) : JoinCalls[i].column = path /\ JoinCalls[i].alias = Some(as)

(* Every clause of every bracket is on the column *)
PredicatesOn(column) ==
  /\ Len(WhereCalls) > 0
  /\ \A i \in 1..Len(WhereCalls) : \A j \in 1..Len(WhereCalls[i].bracket) :
       WhereCalls[i].bracket[j].column = column

(* Three-segment paths <<parent, child, field>> of the inputs *)
NestedPaths == {<<"status", "category", "name">>, <<"owner", "team", "title">>}
PathOf(p) == <<p[1], ".", p[2], ".", p[3]>>
WildcardOf(p) == <<p[1], ".", p[2], ".", "*">>
ParentPath(p) == <<"task", ".", p[1]>>
ParentAlias(p) == <<"task", "__", p[1]>>
ChildPath(p) == <<"task", "__", p[1], ".", p[2]>>
ChildAlias(p) == <<"task", "__", p[1], "__", p[2]>>
NestedColumn(p) == <<"task", "__", p[1], "__", p[2], ".", p[3]>>
NestedColumnAlias(p) == <<"task", "__", p[1], "__", p[2], "_", p[3]>>

FiltersOn(field) ==
  /\ Truthy(query.filter)
  /\ Split(Get(query.filter), LOOKUP_DELIMITER)[1] = field
SortsBy(field) ==
  \E i \in 1..Len(SortFieldsOf(query.sort)) : SortFieldsOf(query.sort)[i] = field

(* C3: within one buildAdvanced call no join path reaches leftJoin or      *)
(* innerJoin twice and no column reference reaches select or addSelect     *)
(* twice, at any point of the call; a select naming relation.* together    *)
(* with join=relation gives exactly one join of the relation, and          *)
(* select=relation.* exactly one addSelect per column of the relation.     *)
C3_NoDuplicateJoinOrColumn ==
  mode = "buildAdvanced" =>
    /\ NoRepeat(Columns(JoinCalls))
    /\ NoRepeat(Columns(SelectCalls))
    /\ (AdvancedDone /\ HasToken(<<"status", ".", "*">>) /\ JoinNames(<<"status">>)) =>
         Count(Columns(JoinCalls), <<"task", ".", "status">>) = 1
    /\ (AdvancedDone /\ query.select = Some(<<"status", ".", "*">>)
          /\ JoinNames(<<"status">>)) =>
         \A k \in 1..Len(getEntityColumns(<<"status">>)) :
           Count(Columns(SelectCalls),
                 <<"task", "__", "status", ".", getEntityColumns(<<"status">>)[k]>>) = 1

(* select=status.* with join=status *)
C3_Witness ==
  /\ AdvancedDone
  /\ query.select = Some(<<"status", ".", "*">>)
  /\ query.join = Some(<<"status">>)
  /\ Len(JoinCalls) = 1

(* C4: build adds the key of a parameter exactly when the parameter is a   *)
(* non-empty string, and never throws; build({}) is the empty object.      *)
C4_KeyIffNonEmpty ==
  BuildDone =>
    /\ ~threw
    /\ IsDefined(output.select) <=> Truthy(query.select)
    /\ IsDefined(output.relations) <=> Truthy(query.join)
    /\ IsDefined(output.order) <=> Truthy(query.sort)
    /\ IsDefined(output.cache) <=> Truthy(query.cache)
    /\ IsDefined(output.take) <=> (Truthy(query.limit) \/ Truthy(query.page))
    /\ IsDefined(output.skip) <=> Truthy(query.page)
    /\ IsDefined(output.where) => Truthy(query.filter)
    /\ query.filter = Some(NameIsJohn) => IsDefined(output.where)

(* build({}) has returned or thrown *)
C4_Witness ==
  /\ BuildDone
  /\ query = Query(None, None, None, None, None, None, None)

(* C5: in build, for integer strings page p and limit l, skip = l*(p-1)    *)
(* and take = l, with l = DEFAULT_LIMIT (25) when limit is absent; a limit *)
(* without page gives take = l and no skip key.                            *)
C5_SkipAndTake ==
  \A l, p \in (0 - MaxNumber)..MaxNumber :
    BuildDone =>
      /\ (query.limit = Some(IntString(l)) /\ query.page = Some(IntString(p))) =>
           output.skip = Some(Num(l * (p - 1))) /\ output.take = Some(Num(l))
      /\ (~IsDefined(query.limit) /\ query.page = Some(IntString(p))) =>
           /\ output.skip = Some(Times(ParseInt(DEFAULT_LIMIT), Num(p - 1)))
           /\ output.take = Some(ParseInt(DEFAULT_LIMIT))
      /\ (query.limit = Some(IntString(l)) /\ ~IsDefined(query.page)) =>
           output.take = Some(Num(l)) /\ ~IsDefined(output.skip)

(* build returned for limit=2, page=2 *)
C5_Witness ==
  /\ BuildDone /\ ~threw
  /\ query.limit = Some(<<"2">>)
  /\ query.page = Some(<<"2">>)

NonNegative(v) == v.kind = "number" /\ v.num >= 0
IntegerPair ==
  /\ IsDefined(query.limit) /\ Get(query.limit) \in NumberInputs
  /\ IsDefined(query.page) /\ Get(query.page) \in NumberInputs

(* C6: for integer-valued page and limit strings, every skip or take that  *)
(* build puts in the descriptor or buildAdvanced passes to the builder is  *)
(* a non-negative integer.                                                 *)
C6_SkipTakeNonNegative ==
  IntegerPair =>
    /\ (BuildDone /\ IsDefined(output.take)) => NonNegative(Get(output.take))
    /\ (BuildDone /\ IsDefined(output.skip)) => NonNegative(Get(output.skip))
    /\ \A i \in 1..Len(calls) :
         calls[i].op \in {"take", "skip"} => NonNegative(calls[i].arg)

(* buildAdvanced passed a skip to the builder *)
C6_Witness ==
  /\ AdvancedDone
  /\ IntegerPair /\ query.page = Some(<<"0">>)
  /\ \E i \in 1..Len(calls) : calls[i].op = "skip"

(* C7: build never emits where as an empty list: a filter that yields no   *)
(* AND-group (empty, blank, malformed or absent) leaves the where key out. *)
C7_NoEmptyWhere ==
  (BuildDone /\ ~threw) =>
    /\ IsDefined(output.where) => Len(Get(output.where)) > 0
    /\ Len(parseFilterString(query.filter).result) = 0 => ~IsDefined(output.where)

(* build returned for the empty filter string *)
C7_Witness ==
  /\ BuildDone /\ ~threw
  /\ query.filter = Some(<<>>)

(* C8 as stated: a three-segment path used in select and in filter is      *)
(* projected as <root>__<parent>__<child>.<field> and filtered on that     *)
(* same column, with parent joined as <root>__<parent> and child as        *)
(* <root>__<parent>__<child>.                                              *)
C8_NestedPathProjectedAndFiltered ==
  \A p \in NestedPaths :
    (AdvancedDone /\ HasToken(PathOf(p)) /\ FiltersOn(PathOf(p))) =>
      /\ Joined(ParentPath(p), ParentAlias(p))
      /\ Joined(ChildPath(p), ChildAlias(p))
      /\ ProjectedAs(NestedColumn(p), NestedColumnAlias(p))
      /\ PredicatesOn(NestedColumn(p))

(* C8 amended: the joins and the predicate are as stated; the field is     *)
(* projected under the same alias unless select also holds the wildcard    *)
(* parent.child.*, in which case the projection under that alias is the    *)
(* column list of the child relation, whether or not it lists the field.   *)
C8_NestedPathSameAlias ==
  \A p \in NestedPaths :
    (AdvancedDone /\ HasToken(PathOf(p)) /\ FiltersOn(PathOf(p))) =>
      /\ Joined(ParentPath(p), ParentAlias(p))
      /\ Joined(ChildPath(p), ChildAlias(p))
      /\ PredicatesOn(NestedColumn(p))
      /\ IF HasToken(WildcardOf(p))
         THEN /\ \A k \in 1..Len(getEntityColumns(<<p[2]>>)) :
                   ProjectedAs(ChildAlias(p) \o <<".", getEntityColumns(<<p[2]>>)[k]>>,
                               ChildAlias(p) \o <<"_", getEntityColumns(<<p[2]>>)[k]>>)
              /\ Projected(NestedColumn(p)) <=>
                   \E k \in 1..Len(getEntityColumns(<<p[2]>>)) :
                     getEntityColumns(<<p[2]>>)[k] = p[3]
         ELSE ProjectedAs(NestedColumn(p), NestedColumnAlias(p))

(* status.category.name selected and filtered *)
C8_Witness ==
  /\ AdvancedDone
  /\ HasToken(<<"status", ".", "category", ".", "name">>)
  /\ FiltersOn(<<"status", ".", "category", ".", "name">>)
  /\ ~HasToken(<<"status", ".", "category", ".", "*">>)
  /\ PredicatesOn(<<"task", "__", "status", "__", "category", ".", "name">>)

(* C9: a path of three segments resolves through <root>__<parent>__<child> *)
(* to the same column wherever it is used: selected, included for sorting, *)
(* given to orderBy (as the column or its alias) and filtered.             *)
C9_DeepPathSameColumn ==
  \A p \in NestedPaths :
    AdvancedDone =>
      /\ (HasToken(PathOf(p)) /\ ~HasToken(WildcardOf(p))) => Projected(NestedColumn(p))
      /\ FiltersOn(PathOf(p)) => PredicatesOn(NestedColumn(p))
      /\ SortsBy(PathOf(p)) =>
           /\ \E i \in 1..Len(OrderByCallsMade) :
                OrderByCallsMade[i].column \in {NestedColumn(p), NestedColumnAlias(p)}
           /\ (Truthy(query.select) /\ ~HasToken(<<"*">>) /\ ~HasToken(WildcardOf(p))) =>
                Projected(NestedColumn(p))

(* sort=status.category.name with a select that does not name the path *)
C9_Witness ==
  /\ AdvancedDone
  /\ query.select = Some(<<"name">>)
  /\ SortsBy(<<"status", ".", "category", ".", "name">>)
  /\ Len(OrderByCallsMade) = 1

(* A sort field of one or two segments is in the projection: a root field  *)
(* as <root>.<field> or under <root>.*, a relation field as                *)
(* <root>__<relation>.<field> with the relation joined                     *)
InProjection(field) ==
  LET parts == Split(field, RELATION_DELIMITER)
  IN IF Len(parts) = 1
     THEN Projected(<<"task", ".">> \o field) \/ Projected(<<"task", ".", "*">>)
     ELSE /\ Projected(<<"task", "__">> \o parts[1] \o <<".">> \o parts[2])
          /\ Joined(<<"task", ".">> \o parts[1], <<"task", "__">> \o parts[1])

(* C10: after buildAdvanced every root or relation-qualified sort field is *)
(* in the projection, with or without a select parameter.                  *)
C10_SortFieldsProjected ==
  AdvancedDone =>
    \A i \in 1..Len(SortFieldsOf(query.sort)) :
      Len(Split(SortFieldsOf(query.sort)[i], RELATION_DELIMITER)) <= 2 =>
        InProjection(SortFieldsOf(query.sort)[i])

(* sort=status.name,DESC without select *)
C10_Witness ==
  /\ AdvancedDone
  /\ ~IsDefined(query.select)
  /\ SortsBy(<<"status", ".", "name">>)
  /\ Len(OrderByCallsMade) = 1

-----------------------------------------------------------------------------
(* Vocabulary of the filter properties.                                    *)

(* buildAdvanced has handled the filter without an exception *)
FilterHandled == mode = "buildAdvanced" /\ pc \in {"sorting", "pagination", "done"} /\ ~threw

(* The filter is `c1;c2`, alone or as the last OR-group *)
UsesConditionDelimiter ==
  IsDefined(query.filter) /\ Includes(Get(query.filter), CONDITION_DELIMITER)

(* The same filter with every `;` replaced by `||$and||` *)
AsAndSeparated(filter) == JoinWith(Split(filter, CONDITION_DELIMITER), AND_SEPARATOR)

(* The keys of an AND-group *)
Keys(group) == [i \in 1..Len(group) |-> group[i].key]

(* The clauses applied for OR-group i *)
ClausesOf(i) == WhereCalls[i].bracket

(* C11: conditions separated by `;` are conjoined like conditions          *)
(* separated by `||$and||`: the filter c1;c2 parses to what c1||$and||c2   *)
(* parses to, one AND-group holding both conditions, and buildAdvanced     *)
(* applies the same clauses on the same columns.                           *)
C11_SemicolonIsAnd ==
  (FilterHandled /\ UsesConditionDelimiter) =>
    LET groups == parseFilterString(query.filter).result
        asAnd == parseFilterString(Some(AsAndSeparated(Get(query.filter)))).result
    IN /\ groups = asAnd
       /\ Len(WhereCalls) = Len(asAnd)
       /\ \A i \in 1..Len(asAnd) : Len(ClausesOf(i)) = Len(asAnd[i])

(* name||$eq||John;age||$gt||5 was handled *)
C11_Witness ==
  /\ FilterHandled /\ pc = "done"
  /\ query.filter = Some(NameThenAge)
  /\ Len(WhereCalls) = 1

(* The filter is one condition on a field holding the nested delimiter *)
UsesNestedDelimiter ==
  /\ IsDefined(query.filter)
  /\ Includes(Split(Get(query.filter), LOOKUP_DELIMITER)[1], NESTED_DELIMITER)

(* The segments a#b#...#z of the filtered field *)
NestedSegments == Split(Split(Get(query.filter), LOOKUP_DELIMITER)[1], NESTED_DELIMITER)

(* C12: a condition on a field a#b#...#z puts the nested structure         *)
(* {a: {b: ... {z: value}}} into the AND-group: the group has the single   *)
(* key a, no key holds the delimiter, and the value under a is an object   *)
(* and not the resolved value itself.                                      *)
C12_NestedFieldIsFolded ==
  (FilterHandled /\ UsesNestedDelimiter) =>
    LET groups == parseFilterString(query.filter).result
    IN /\ Len(groups) = 1
       /\ Keys(groups[1]) = <<NestedSegments[1]>>
       /\ \A i \in 1..Len(groups[1]) : ~Includes(groups[1][i].key, NESTED_DELIMITER)
       /\ groups[1][1].val.kind = "object"

(* status#name||$eq||John was handled *)
C12_Witness ==
  /\ FilterHandled /\ pc = "done"
  /\ query.filter = Some(StatusHashName)
  /\ Len(WhereCalls) = 1

(* Two conditions on the field name in one AND-group *)
NameAbove5 == Condition(<<"name">>, GT, Some(<<"5">>))
NameTwice == JoinWith(<<NameIsJohn, NameAbove5>>, AND_SEPARATOR)

(* C13: when a field appears in two conditions of one AND-group the group  *)
(* keeps both: the field maps to the list of the two resolved values in    *)
(* insertion order, and the earlier condition is not overwritten.          *)
C13_RepeatedFieldCoalesced ==
  \A g \in 1..MaxGroups :
    (FilterHandled /\ IsDefined(query.filter)
       /\ Len(Split(Get(query.filter), OR_SEPARATOR)) >= g
       /\ Split(Get(query.filter), OR_SEPARATOR)[g] = NameTwice) =>
      \E i \in 1..Len(parseFilterString(query.filter).result) :
        LET group == parseFilterString(query.filter).result[i]
        IN /\ Keys(group) = <<<<"name">>>>
           /\ group[1].val = Array(<<FinalValue(EXACT, Some(<<"John">>)),
                                     FinalValue(GT, Some(<<"5">>))>>)

(* name||$eq||John||$and||name||$gt||5 was handled *)
C13_Witness ==
  /\ FilterHandled /\ pc = "done"
  /\ query.filter = Some(NameTwice)
  /\ Len(WhereCalls) = 1

-----------------------------------------------------------------------------
(* The operator table: the SQL operator and the operands of each keyword.  *)

ComparisonOperators == {GT, GTE, LT, LTE}
PatternOperators == {CONTAINS, STARTS_WITH, ENDS_WITH}
TableOperators ==
  {EXACT, IN_, BETWEEN} \cup ComparisonOperators \cup PatternOperators

TableSql(op) ==
  CASE op = EXACT -> <<"=">>
    [] op = GT -> <<">">>
    [] op = GTE -> <<">=">>
    [] op = LT -> <<"<">>
    [] op = LTE -> <<"<=">>
    [] op = IN_ -> <<"IN">>
    [] op = BETWEEN -> <<"BETWEEN">>
    [] op \in PatternOperators -> <<"LIKE">>

(* The values the table binds for operator op and raw value v *)
TableOperands(op, v) ==
  CASE op \in {EXACT} \cup ComparisonOperators -> <<ParseDateOrNumber(Some(v))>>
    [] op = IN_ -> <<Array(MapParse(Split(v, VALUE_DELIMITER)))>>
    [] op = BETWEEN ->
         <<ParseDateOrNumber(At(Split(v, VALUE_DELIMITER), 1)),
           ParseDateOrNumber(At(Split(v, VALUE_DELIMITER), 2))>>
    [] op = CONTAINS -> <<Str(<<"%">> \o v \o <<"%">>)>>
    [] op = STARTS_WITH -> <<Str(v \o <<"%">>)>>
    [] op = ENDS_WITH -> <<Str(<<"%">> \o v)>>

(* The parameter name a placeholder refers to: `:...p` refers to p *)
BoundName(placeholder) ==
  IF Len(placeholder) > 0 /\ placeholder[1] = "..." THEN Tail(placeholder) ELSE placeholder

(* The filter compiled to one bracketed where holding one clause *)
HasSingleClause ==
  /\ Len(WhereCalls) = 1
  /\ WhereCalls[1].op = "where" /\ WhereCalls[1].isBracket
  /\ Len(ClausesOf(1)) = 1
  /\ ClausesOf(1)[1].op = "where"

TheClause == ClausesOf(1)[1]

(* Every placeholder of the clause has exactly one binding, in order *)
EveryPlaceholderBound(c) ==
  /\ Len(c.params) = Len(c.placeholders)
  /\ \A k \in 1..Len(c.placeholders) : c.params[k].name = BoundName(c.placeholders[k])

(* The values bound by the clause, in placeholder order *)
BoundValues(c) == [k \in 1..Len(c.params) |-> c.params[k].val]

IsFilter(field, operator, value) == query.filter = Some(Condition(field, operator, value))

(* C14: f||OP||v compiles as the operator table says: $eq to `= :p`, the   *)
(* ordering operators to >, >=, <, <=, $in to `IN (:...p)` with the list   *)
(* of coerced members, $between to `BETWEEN :p_start AND :p_end` with the  *)
(* two coerced bounds, $cont/$starts/$ends to `LIKE :p` with the pattern   *)
(* built from the uncoerced value; every placeholder has one binding.      *)
C14_OperatorTable ==
  \A f \in FieldShapes : \A op \in TableOperators : \A v \in FilterValues :
    (AdvancedDone /\ IsDefined(v) /\ IsFilter(f, op, v)) =>
      /\ HasSingleClause
      /\ TheClause.column = ExpectedColumn(f)
      /\ TheClause.sql = TableSql(op)
      /\ EveryPlaceholderBound(TheClause)
      /\ BoundValues(TheClause) = TableOperands(op, Get(v))

(* status.name||$in||1,2 was compiled *)
C14_Witness ==
  /\ AdvancedDone
  /\ IsFilter(<<"status", ".", "name">>, IN_, Some(<<"1", ",", "2">>))
  /\ HasSingleClause

(* C15: f||$isnull|| compiles to `<column> IS NULL` and f||!$isnull|| to   *)
(* `<column> IS NOT NULL`, for root, relation and nested fields, without   *)
(* parameters and whatever the value part is.                              *)
C15_IsNullAndNegation ==
  \A f \in FieldShapes : \A v \in FilterValues :
    /\ (AdvancedDone /\ IsFilter(f, IS_NULL, v)) =>
         /\ HasSingleClause
         /\ TheClause.column = ExpectedColumn(f)
         /\ TheClause.sql = <<"IS NULL">>
         /\ TheClause.placeholders = <<>> /\ TheClause.params = <<>>
    /\ (AdvancedDone /\ IsFilter(f, NOT \o IS_NULL, v)) =>
         /\ HasSingleClause
         /\ TheClause.column = ExpectedColumn(f)
         /\ TheClause.sql = <<"IS NOT NULL">>
         /\ TheClause.placeholders = <<>> /\ TheClause.params = <<>>

(* status.name||!$isnull|| was compiled *)
C15_Witness ==
  /\ AdvancedDone
  /\ IsFilter(<<"status", ".", "name">>, NOT \o IS_NULL, Some(<<>>))
  /\ HasSingleClause

(* The SQL operators that negate the clause of operator op *)
NegatedSql(op) ==
  CASE op = GT -> {<<"NOT", ">">>, <<"<=">>}
    [] op = GTE -> {<<"NOT", ">=">>, <<"<">>}
    [] op = LT -> {<<"NOT", "<">>, <<">=">>}
    [] op = LTE -> {<<"NOT", "<=">>, <<">">>}
    [] op = IN_ -> {<<"NOT", "IN">>, <<"NOT IN">>}
    [] op = BETWEEN -> {<<"NOT", "BETWEEN">>, <<"NOT BETWEEN">>}
    [] op \in PatternOperators -> {<<"NOT", "LIKE">>, <<"NOT LIKE">>}

(* C16: for every operator other than $eq and $isnull, f||!OP||v compiles  *)
(* to the negation of the clause of f||OP||v, with the operands of OP as   *)
(* its parameters.                                                         *)
C16_NegationOfAnyOperator ==
  \A f \in FieldShapes : \A op \in TableOperators \ {EXACT} : \A v \in FilterValues :
    (AdvancedDone /\ IsDefined(v) /\ IsFilter(f, NOT \o op, v)) =>
      /\ HasSingleClause
      /\ TheClause.column = ExpectedColumn(f)
      /\ TheClause.sql \in NegatedSql(op)
      /\ EveryPlaceholderBound(TheClause)
      /\ BoundValues(TheClause) = TableOperands(op, Get(v))

(* name||!$gt||25 was compiled *)
C16_Witness ==
  /\ AdvancedDone
  /\ IsFilter(<<"name">>, NOT \o GT, Some(<<"2", "5">>))
  /\ HasSingleClause

-----------------------------------------------------------------------------
(* Value coercion as stated: date and date-time literals are kept, valid   *)
(* numbers become numbers, every other string is returned unchanged.       *)

Coerced(v) ==
  IF Len(v) = 1 /\ v[1] \in DateLiterals \cup DatetimeLiterals THEN Str(v)
  ELSE IF ToNumber(v).kind = "number" THEN ToNumber(v)
  ELSE Str(v)

CoercedAt(parts, i) == IF i <= Len(parts) THEN Coerced(parts[i]) ELSE Undefined

CoercedOperator(op) ==
  CASE op = GT -> "moreThan"
    [] op = GTE -> "moreThanOrEqual"
    [] op = LT -> "lessThan"
    [] op = LTE -> "lessThanOrEqual"

(* The value stored for field||op||v when operands are coerced as stated   *)
(* and patterns are not coerced                                            *)
CoercedValue(op, v) ==
  CASE op = EXACT -> Coerced(v)
    [] op = NOT_EQUALS -> Mark(FindOperator("not", Coerced(v)))
    [] op \in ComparisonOperators -> FindOperator(CoercedOperator(op), Coerced(v))
    [] op = IN_ ->
         FindOperator("in", Array([i \in 1..Len(Split(v, VALUE_DELIMITER)) |->
                                     Coerced(Split(v, VALUE_DELIMITER)[i])]))
    [] op = BETWEEN ->
         FindOperator("between", Array(<<CoercedAt(Split(v, VALUE_DELIMITER), 1),
                                         CoercedAt(Split(v, VALUE_DELIMITER), 2)>>))
    [] op \in PatternOperators -> TableOperands(op, v)[1]

StoredValue(op, v) ==
  IF op \in PatternOperators THEN FindOperator("like", CoercedValue(op, v))
  ELSE CoercedValue(op, v)

(* buildAdvanced has handled the filter, with or without an exception *)
FilterAttempted == mode = "buildAdvanced" /\ pc \in {"sorting", "pagination", "done"}

(* C17: value coercion is total and three-way for every raw string: a date *)
(* or date-time literal is kept as that string, a valid number becomes the *)
(* number, any other string is unchanged; it is applied to $eq and $ne     *)
(* targets, ordering operands, each $in member and both $between bounds,   *)
(* and never to $cont/$starts/$ends patterns.                              *)
C17_CoercionTotalThreeWay ==
  \A f \in FieldShapes : \A op \in TableOperators \cup {NOT_EQUALS} : \A v \in FilterValues :
    (FilterAttempted /\ IsDefined(v) /\ IsFilter(f, op, v)) =>
      /\ ~threw
      /\ ~parseFilterString(query.filter).threw
      /\ parseFilterString(query.filter).result =
           <<<<[key |-> f, val |-> StoredValue(op, Get(v))]>>>>

(* name||$gte||2024-01-15 10:30:00 was handled *)
C17_Witness ==
  /\ FilterAttempted /\ pc = "done"
  /\ IsFilter(<<"name">>, GTE, Some(<<"2024-01-15 10:30:00">>))

-----------------------------------------------------------------------------
(* Sorting, relation wildcards and pagination.                             *)

(* The clauses of the sort parameter that name a field *)
RECURSIVE FieldClauses(_)
FieldClauses(sortConditions) ==
  IF Len(sortConditions) = 0 THEN <<>>
  ELSE (IF Len(Split(sortConditions[1], VALUE_DELIMITER)[1]) > 0
        THEN <<Split(sortConditions[1], VALUE_DELIMITER)>> ELSE <<>>)
       \o FieldClauses(Tail(sortConditions))

SortClauses == FieldClauses(Split(Get(query.sort), CONDITION_DELIMITER))

(* C18: build's order mapping has one entry per sort clause with a         *)
(* non-empty field; the direction is ASC when the second segment is        *)
(* missing or empty, otherwise the second segment in upper case, and is    *)
(* ASC or DESC; nulls is set only for NULLS FIRST / NULLS LAST.            *)
C18_OrderEntries ==
  (BuildDone /\ ~threw /\ IsDefined(query.sort)) =>
    /\ IsDefined(output.order)
    /\ Len(Get(output.order)) = Len(SortClauses)
    /\ \A i \in 1..Len(Get(output.order)) :
         LET entry == Get(output.order)[i]
             parts == SortClauses[i]
         IN /\ entry.key = parts[1]
            /\ entry.val.direction \in {<<"ASC">>, <<"DESC">>}
            /\ entry.val.direction =
                 (IF Len(parts) < 2 \/ Len(parts[2]) = 0 THEN <<"ASC">>
                  ELSE toUpperCase(parts[2]))
            /\ entry.val.nulls \in {None, Some(<<"NULLS FIRST">>), Some(<<"NULLS LAST">>)}
            /\ Len(parts) < 3 => entry.val.nulls = None

(* build returned for sort=name,desc *)
C18_Witness ==
  /\ BuildDone /\ ~threw
  /\ query.sort = Some(<<"name", ",", "desc">>)

(* Relations named by a relation.* token of the inputs *)
WildcardRelations == {<<"status">>, <<"members">>}
WildcardToken(r) == r \o <<".", "*">>

(* The columns selected under the alias of relation r *)
ColumnsUnder(r) ==
  {SelectCalls[i].column : i \in {k \in 1..Len(SelectCalls) :
      Len(SelectCalls[k].column) = 5
      /\ SubSeq(SelectCalls[k].column, 1, 4) = <<"task", "__">> \o r \o <<".">>}}

(* C19: whenever select holds relation.*, whatever the other tokens and    *)
(* their order, the relation is joined once and every column of the        *)
(* lookup is added by its own addSelect under <relationAlias>_<column>;    *)
(* an unknown relation has the column set {id}.                            *)
C19_WildcardSelectsEveryColumn ==
  \A r \in WildcardRelations :
    (AdvancedDone /\ HasToken(WildcardToken(r))) =>
      /\ Count(Columns(JoinCalls), <<"task", ".">> \o r) = 1
      /\ \A k \in 1..Len(getEntityColumns(r)) :
           /\ ProjectedAs(<<"task", "__">> \o r \o <<".", getEntityColumns(r)[k]>>,
                          <<"task", "__">> \o r \o <<"_", getEntityColumns(r)[k]>>)
           /\ Count(Columns(SelectCalls),
                    <<"task", "__">> \o r \o <<".", getEntityColumns(r)[k]>>) = 1
      /\ r = <<"members">> =>
           ColumnsUnder(r) = {<<"task", "__", "members", ".", "id">>}

(* status.* after another token of the same select *)
C19_Witness ==
  /\ AdvancedDone
  /\ Len(TokensOf(query.select)) = 2
  /\ TokensOf(query.select)[2] = <<"status", ".", "*">>
  /\ Joined(<<"task", ".", "status">>, <<"task", "__", "status">>)

(* The last take and the last skip given to the builder *)
LastArg(op) ==
  LET made == CallsWithOp(calls, {op})
  IN IF Len(made) = 0 THEN None ELSE Some(made[Len(made)].arg)

(* limit and page are absent or integer strings *)
IntegerOrAbsentPair ==
  /\ IsDefined(query.limit) => Get(query.limit) \in NumberInputs
  /\ IsDefined(query.page) => Get(query.page) \in NumberInputs

(* C20: for every pair of present or absent integer strings limit and      *)
(* page, the final take and skip buildAdvanced applies equal the take and  *)
(* skip of build's descriptor for the same parameters, and buildAdvanced   *)
(* applies neither when build omits the key.                               *)
C20_PaginationAgrees ==
  (AdvancedDone /\ IntegerOrAbsentPair /\ ~build(query).threw) =>
    /\ LastArg("take") = build(query).output.take
    /\ LastArg("skip") = build(query).output.skip

(* buildAdvanced ended for limit=2, page=2 on a query build accepts *)
C20_Witness ==
  /\ AdvancedDone
  /\ query.limit = Some(<<"2">>) /\ query.page = Some(<<"2">>)
  /\ ~build(query).threw
  /\ LastArg("skip") = Some(Num(2))

-----------------------------------------------------------------------------
(* Caching, exceptions and the shape of the parsed filter.                 *)

(* The cache configuration of the query builder: enabled, with a duration, *)
(* once the builder has received a cache call; as it was (disabled, no     *)
(* duration) otherwise.                                                    *)
CacheCalls == CallsWithOp(calls, {"cache"})
CacheConfiguration ==
  IF Len(CacheCalls) = 0 THEN [enabled |-> FALSE, duration |-> Num(0)]
  ELSE [enabled |-> TRUE, duration |-> CacheCalls[Len(CacheCalls)].arg]

CacheIsTrue == IsDefined(query.cache) /\ toLowerCase(Get(query.cache)) = <<"true">>

(* C21: buildAdvanced with cache='true' in any letter case enables caching *)
(* on the builder with the duration 60000; with cache absent or 'false'    *)
(* the cache configuration stays as it was.                                *)
C21_CacheEnabledWithDuration ==
  AdvancedDone =>
    IF CacheIsTrue
    THEN CacheConfiguration = [enabled |-> TRUE, duration |-> Num(60000)]
    ELSE CacheConfiguration = [enabled |-> FALSE, duration |-> Num(0)]

(* buildAdvanced ended for cache=TRUE *)
C21_Witness ==
  /\ AdvancedDone
  /\ query.cache = Some(<<"TRUE">>)
  /\ Len(calls) > 0

(* C22: build and parseFilterString never raise an exception, whatever the *)
(* strings of the parameter bag: not for a condition without a value part  *)
(* under any operator, not for a $between value without two parts; they    *)
(* return a best-effort structure.                                         *)
C22_NoException ==
  /\ BuildDone => ~threw
  /\ FilterAttempted => ~parseFilterString(query.filter).threw
  /\ FilterAttempted => ~threw

(* buildAdvanced parsed name||$in, a condition without a value part *)
C22_Witness ==
  /\ FilterAttempted /\ pc = "done"
  /\ IsFilter(<<"name">>, IN_, None)

(* A condition that parseFilterString does not skip *)
WellFormed(condition) ==
  /\ Len(Trim(condition)) > 0
  /\ Len(Split(condition, LOOKUP_DELIMITER)) >= 2
  /\ Len(Split(condition, LOOKUP_DELIMITER)[1]) > 0
  /\ Len(Split(condition, LOOKUP_DELIMITER)[2]) > 0

(* The OR segments of the filter and the groups one segment parses to *)
OrSegments == Split(Get(query.filter), OR_SEPARATOR)
GroupsOf(segment) == parseFilterString(Some(segment)).result
WithoutSkipped(segment) ==
  JoinWith(SelectSeq(Split(segment, AND_SEPARATOR), WellFormed), AND_SEPARATOR)

RECURSIVE GroupsInOrder(_)
GroupsInOrder(segments) ==
  IF Len(segments) = 0 THEN <<>>
  ELSE GroupsOf(segments[1]) \o GroupsInOrder(Tail(segments))

(* C23: every AND-group of parseFilterString's output has at least one     *)
(* field; there is at most one group per OR segment and the groups are in  *)
(* the order of their segments; a condition with fewer than two parts, an  *)
(* empty field or an empty operator is skipped and changes neither the     *)
(* rest of its group nor any other group.  buildAdvanced applies one       *)
(* bracket per group.                                                      *)
C23_GroupsNonEmptyInOrder ==
  (FilterHandled /\ IsDefined(query.filter)) =>
    LET result == parseFilterString(query.filter).result
    IN /\ \A i \in 1..Len(result) : Len(result[i]) > 0
       /\ \A k \in 1..Len(OrSegments) :
            /\ Len(GroupsOf(OrSegments[k])) <= 1
            /\ GroupsOf(OrSegments[k]) = GroupsOf(WithoutSkipped(OrSegments[k]))
       /\ result = GroupsInOrder(OrSegments)
       /\ Len(WhereCalls) = Len(result)
       /\ \A i \in 1..Len(WhereCalls) : Len(ClausesOf(i)) > 0

(* A segment of skipped conditions only, then one that holds skipped and   *)
(* well-formed conditions                                                  *)
C23_Witness ==
  /\ FilterHandled /\ pc = "done"
  /\ IsDefined(query.filter)
  /\ Len(OrSegments) = 2
  /\ WithoutSkipped(OrSegments[1]) = <<>>
  /\ WithoutSkipped(OrSegments[2]) # OrSegments[2]
  /\ Len(WhereCalls) = 1
  /\ Len(ClausesOf(1)) = 2

-----------------------------------------------------------------------------
(* Parameter names and calls on the same instance.                         *)

(* The predicates of the call as <<group, clause>> positions and the       *)
(* parameter names one predicate binds                                     *)
Predicates == {<<i, j>> : i \in 1..Len(WhereCalls), j \in 1..MaxConds} \cap
              UNION {{<<i, j>> : j \in 1..Len(ClausesOf(i))} : i \in 1..Len(WhereCalls)}
NamesBoundBy(p) ==
  {ClausesOf(p[1])[p[2]].params[k].name : k \in 1..Len(ClausesOf(p[1])[p[2]].params)}

SameFieldTwice == JoinWith(<<NameIsJohn, NameIsJohn>>, OR_SEPARATOR)

(* C24: within one buildAdvanced call no two predicates are bound to the   *)
(* same parameter name, whatever values the name generator returns; this   *)
(* holds for two conditions on one field in different OR-groups and for    *)
(* two fields that differ by '.' against '_'.                              *)
C24_ParameterNamesUnique ==
  AdvancedDone =>
    \A p \in Predicates, q \in Predicates :
      p # q => NamesBoundBy(p) \cap NamesBoundBy(q) = {}

(* name||$eq||John in two OR-groups, each compiled to a predicate *)
C24_Witness ==
  /\ AdvancedDone
  /\ query.filter = Some(SameFieldTwice)
  /\ Len(WhereCalls) = 2
  /\ \A p \in Predicates : NamesBoundBy(p) # {}

(* The calls buildAdvanced makes on a fresh builder for q when it starts   *)
(* from empty tracking sets, for the outcomes rnds of the name generator   *)
AloneUpToJoins(q, alias) ==
  HandleJoinParam(
    HandleSelectFields([calls |-> <<>>, joined |-> {}, selected |-> {},
                        sortFields |-> SortFieldsOf(q.sort)],
                       q.select, alias, FirstPass(q).wildcards),
    q.join, q.select, alias, FirstPass(q).wildcards, FirstPass(q).nested)

CallsAlone(q, alias, rnds) ==
  AloneUpToJoins(q, alias).calls
    \o BracketCalls(parseFilterString(q.filter).result, alias, rnds, 1)
    \o (IF Truthy(q.sort) THEN OrderByCalls(createOrderArray(Get(q.sort)), alias)
        ELSE <<>>)
    \o PaginationCalls(q.limit, q.page)

(* C25: results depend only on the arguments: after any sequence of earlier *)
(* build and buildAdvanced calls on the same instance, build(q) returns the *)
(* descriptor of build(q) alone, and buildAdvanced(q) makes the calls it    *)
(* makes alone, up to the generated parameter names; no join or column is   *)
(* left out because an earlier call recorded it.                            *)
C25_CallsAreIndependent ==
  /\ BuildDone => output = build(query).output /\ threw = build(query).threw
  /\ AdvancedDone =>
       \E rnds \in [1..CountEntries(parseFilterString(query.filter).result)
                      -> RandomOutcomes] :
         calls = CallsAlone(query, rootAlias, rnds)

(* build returned a descriptor on an instance whose earlier buildAdvanced  *)
(* call joined relations and selected columns                              *)
C25_Witness ==
  /\ BuildDone /\ ~threw
  /\ joinedRelations # {}
  /\ selectedColumns # {}
  /\ Truthy(query.select)

-----------------------------------------------------------------------------
(* Relation aliases and joins.                                             *)

(* The alias a column `<alias>.<field>` is read from *)
AliasOf(column) == Split(column, RELATION_DELIMITER)[1]
JoinedAs(as) == \E i \in 1..Len(JoinCalls) : JoinCalls[i].alias = Some(as)

(* The relation fields of the sort parameter that reach an orderBy *)
SortedRelations ==
  IF ~Truthy(query.sort) THEN {}
  ELSE {Split(k, RELATION_DELIMITER)[1] :
          k \in {key \in {createOrderArray(Get(query.sort))[i].key :
                            i \in 1..Len(createOrderArray(Get(query.sort)))} :
                   /\ Includes(key, RELATION_DELIMITER)
                   /\ Len(OrderByCall(key, [direction |-> <<"ASC">>, nulls |-> None],
                                      rootAlias)) > 0}}

(* C26: after buildAdvanced every relation alias that a where, andWhere or *)
(* orWhere predicate or an orderBy expression refers to was introduced by  *)
(* a leftJoin or innerJoin of the same call, also for a filter or a sort   *)
(* on a relation field without select and join parameter.                  *)
C26_ReferencedAliasesJoined ==
  AdvancedDone =>
    /\ \A i \in 1..Len(WhereCalls) : \A j \in 1..Len(ClausesOf(i)) :
         AliasOf(ClausesOf(i)[j].column) # rootAlias
           => JoinedAs(AliasOf(ClausesOf(i)[j].column))
    /\ \A r \in SortedRelations : JoinedAs(RelationAlias(rootAlias, r))

(* A filter on status.category.name compiled without select and join *)
C26_Witness ==
  /\ AdvancedDone
  /\ ~IsDefined(query.select) /\ ~IsDefined(query.join)
  /\ Len(WhereCalls) = 1
  /\ Len(ClausesOf(1)) = 1
  /\ AliasOf(ClausesOf(1)[1].column) = <<"task", "__", "status", "__", "category">>

(* The entries of the join parameter that name a relation, and the calls   *)
(* that join the relation of an entry under <alias>.<relation>             *)
JoinEntries ==
  {e \in {Split(Get(query.join), VALUE_DELIMITER)[i] :
            i \in 1..Len(Split(Get(query.join), VALUE_DELIMITER))} :
     Len(e) > 0 /\ Len(Split(e, <<":">>)[1]) > 0}
EntryRelation(e) == Split(e, <<":">>)[1]
EntryHasType(e) == Len(Split(e, <<":">>)) >= 2
EntryIsInner(e) == EntryHasType(e) /\ toLowerCase(Split(e, <<":">>)[2]) = <<"inner">>
JoinsOf(r) ==
  {i \in 1..Len(JoinCalls) :
     /\ JoinCalls[i].column = Column(rootAlias, r)
     /\ JoinCalls[i].alias = Some(RelationAlias(rootAlias, r))}

(* The select handling joined the relation before the join handling ran *)
JoinedBySelect(r) ==
  r \in HandleSelectFields([calls |-> <<>>, joined |-> {}, selected |-> {},
                            sortFields |-> SortFieldsOf(query.sort)],
                           query.select, rootAlias,
                           FirstPass(query).wildcards).joined

(* C27: every relation named in the join parameter is joined exactly once  *)
(* by the end of buildAdvanced, under <alias>.<relation> as                *)
(* <alias>__<relation>, whatever the select parameter holds: by an inner   *)
(* join when the entry ends in ':inner' in any letter case and the join    *)
(* handling issues the join, by a left join when the entry has no type.    *)
C27_JoinEntriesJoinedOnce ==
  (AdvancedDone /\ Truthy(query.join)) =>
    \A e \in JoinEntries :
      /\ Cardinality(JoinsOf(EntryRelation(e))) = 1
      /\ \A i \in JoinsOf(EntryRelation(e)) :
           /\ (EntryIsInner(e) /\ ~JoinedBySelect(EntryRelation(e)))
                => JoinCalls[i].op = "innerJoin"
           /\ ~EntryHasType(e) /\ (\A o \in JoinEntries : EntryRelation(o) = EntryRelation(e) => o = e)
                => JoinCalls[i].op = "leftJoin"

(* join=category beside select=status.category.name: the select handling   *)
(* joined status and its child category                                    *)
C27_Witness ==
  /\ AdvancedDone
  /\ query.join = Some(<<"category">>)
  /\ query.select = Some(<<"status", ".", "category", ".", "name">>)
  /\ Len(JoinCalls) = 2

-----------------------------------------------------------------------------
(* The null marker, several sort fields, and the negated not-equal.        *)

(* C28: a data value is never taken for the null-check marker: for every   *)
(* field f, f||$eq||IS_NULL parses to an entry that differs from the entry *)
(* of f||$isnull|| and is compiled to an equality with the text IS_NULL as  *)
(* its parameter, never to IS NULL.                                        *)
C28_ValueIsNotTheMarker ==
  \A f \in FieldShapes :
    (AdvancedDone /\ IsFilter(f, EXACT, Some(<<"IS_NULL">>))) =>
      /\ parseFilterString(query.filter).result
           # parseFilterString(Some(Condition(f, IS_NULL, Some(<<>>)))).result
      /\ HasSingleClause
      /\ TheClause.column = ExpectedColumn(f)
      /\ TheClause.sql = <<"=">>
      /\ EveryPlaceholderBound(TheClause)
      /\ BoundValues(TheClause) = <<Str(<<"IS_NULL">>)>>

(* name||$eq||IS_NULL was compiled *)
C28_Witness ==
  /\ AdvancedDone
  /\ IsFilter(<<"name">>, EXACT, Some(<<"IS_NULL">>))
  /\ HasSingleClause
  /\ TheClause.column = <<"task", ".", "name">>

(* The ordering the builder holds after the calls: orderBy replaces the    *)
(* ordering, addOrderBy appends to it                                      *)
RECURSIVE OrderingAfter(_, _)
OrderingAfter(ordering, cs) ==
  IF Len(cs) = 0 THEN ordering
  ELSE OrderingAfter(
         IF cs[1].op = "orderBy" THEN <<cs[1]>>
         ELSE IF cs[1].op = "addOrderBy" THEN Append(ordering, cs[1])
         ELSE ordering,
         Tail(cs))
Ordering == OrderingAfter(<<>>, calls)

TwoSortFields ==
  <<"name", ",", "asc", ";", "status", ".", "name", ",", "DESC", ",", "nulls last">>

(* C29: for a sort parameter of k >= 2 distinct fields the ordering of the *)
(* builder after buildAdvanced holds all k fields in the order given, each *)
(* with its direction and nulls placement; no later sort clause discards   *)
(* an earlier one.                                                         *)
C29_EverySortFieldKept ==
  (AdvancedDone /\ Truthy(query.sort)
     /\ Len(createOrderArray(Get(query.sort))) >= 2) =>
    LET order == createOrderArray(Get(query.sort))
    IN /\ Len(Ordering) = Len(order)
       /\ \A i \in 1..Len(order) :
            /\ <<Ordering[i]>> = OrderByCall(order[i].key, order[i].val, rootAlias)
            /\ Ordering[i].sql = order[i].val.direction
            /\ Ordering[i].nulls = order[i].val.nulls

(* sort=name,asc;status.name,DESC,nulls last reached the sorting: one      *)
(* orderBy per field                                                       *)
C29_Witness ==
  /\ AdvancedDone
  /\ query.sort = Some(TwoSortFields)
  /\ Len(OrderByCallsMade) = 2
  /\ OrderByCallsMade[1].column = <<"task", ".", "name">>
  /\ OrderByCallsMade[2].sql = <<"DESC">>

(* C30: the NOT prefix changes the meaning of the not-equal operator: for  *)
(* every field and value f||!$ne||v parses and compiles to a predicate     *)
(* that differs from the predicate of f||$ne||v; it is not `<>`.           *)
C30_NegatedNotEqualDiffers ==
  \A f \in FieldShapes : \A v \in FilterValues :
    (AdvancedDone /\ IsFilter(f, NOT \o NOT_EQUALS, v)) =>
      /\ parseFilterString(query.filter).result
           # parseFilterString(Some(Condition(f, NOT_EQUALS, v))).result
      /\ \A rnds \in [1..CountEntries(parseFilterString(
                          Some(Condition(f, NOT_EQUALS, v))).result) -> RandomOutcomes] :
           WhereCalls # BracketCalls(parseFilterString(
                          Some(Condition(f, NOT_EQUALS, v))).result, rootAlias, rnds, 1)
      /\ HasSingleClause => TheClause.sql # <<"<>">>

(* name||!$ne||John was compiled to one clause *)
C30_Witness ==
  /\ AdvancedDone
  /\ IsFilter(<<"name">>, NOT \o NOT_EQUALS, Some(<<"John">>))
  /\ HasSingleClause
  /\ Len(TheClause.params) = 1

====
